---- MODULE Spec2Model ----
(***************************************************************************)
(* Deterministic tactical combat engine (cantanor): the battle reducer     *)
(* apply_command, the effect lifecycle, the rule kernels and the scenario  *)
(* driver loop, as state machines.                                         *)
(***************************************************************************)
EXTENDS Integers, Sequences, FiniteSets, TLC

VARIABLES
    st,       \* BattleState held by the caller
    last,     \* outcome of the last apply_command call
    events,   \* events returned by the last apply_command call
    steps,    \* number of apply_command calls that succeeded
    warm,     \* number of opening commands replayed before them
    kin,      \* inputs of the rule kernel under check
    kout,     \* outputs of the rule kernel under check
    drv       \* local variables of run_scenario_file

vars == <<st, last, events, steps, warm, kin, kout, drv>>

(***************************************************************************)
(* Bounds of the model                                                     *)
(***************************************************************************)
MaxSteps == 2      \* arbitrary commands reduced in one behaviour
MaxWarm == 3       \* opening moves reduced before them
MaxRunSteps == 6   \* max_steps of the scenarios the driver runs
DiceLen == 2       \* period of the RNG streams that are enumerated
MaxPool == 3       \* largest hp / temp_hp / damage fed to the pool kernel
MaxRaw == 4        \* largest raw damage fed to the mitigation kernel
MaxMod == 2        \* largest resistance / weakness value
MaxObjectives == 2 \* longest objective list fed to the objective kernel
MaxStackSteps == 2 \* temp_hp grants reduced in one behaviour of the stacking plan
MaxTurnSteps == 5  \* commands reduced in one behaviour of the expiry plans
MaxEconomySteps == 4    \* commands of an action-economy run: three paid, one more
MaxDelaySteps == 5  \* commands reduced in one behaviour of the stage-delay plan
MaxCoverSteps == 3  \* commands reduced in one behaviour of the cover plan
MaxFlagSteps == 3   \* commands reduced in one behaviour of the flag plan
MaxDownSteps == 4   \* commands reduced in one behaviour of the downed-unit plan
MaxCheckDc == 12    \* largest dc fed to the degree kernel
MaxCheckTotal == 25 \* largest check total fed to the degree kernel
MaxTickSteps == 3  \* commands reduced in one behaviour of the ticking plans
MaxRoutineSteps == 8    \* max_steps of the scenarios that run over several rounds
MaxRoundSteps == 4   \* commands reduced in one behaviour of the rounds plan
MaxHazardSteps == 2  \* commands reduced in one behaviour of the hazard plan

NULL == "null"     \* Python None, where the field holds strings
NoInt == -1        \* Python None, where the field holds integers

Max(a, b) == IF a >= b THEN a ELSE b
Min(a, b) == IF a <= b THEN a ELSE b
Abs(a) == IF a >= 0 THEN a ELSE -a

(***************************************************************************)
(* engine/core/rng.py: one seeded stream per battle.  A stream is given by *)
(* the raw words it produces; randint maps the next word into [low, high]. *)
(***************************************************************************)
RawWords == {0, 9, 19}

DiceStreams == [1..DiceLen -> RawWords]

\* the k-th value (k >= 1) drawn from the stream, requested in [low, high]
Randint(dice, k, low, high) ==
    low + (dice[((k - 1) % Len(dice)) + 1] % (high - low + 1))

D20(dice, k) == Randint(dice, k, 1, 20)

(***************************************************************************)
(* engine/rules/degrees.py                                                 *)
(***************************************************************************)
BaseDegree(total, dc) ==
    IF total >= dc + 10 THEN "critical_success"
    ELSE IF total >= dc THEN "success"
    ELSE IF total <= dc - 10 THEN "critical_failure"
    ELSE "failure"

\* a degree that the face of the die never moves
DegreeOfSuccessUnmoved(total, dc, die_value) == BaseDegree(total, dc)

\* degree_of_success
DegreeOfSuccess(total, dc, die_value) ==
    LET degree == BaseDegree(total, dc) IN
    IF die_value = 20 THEN
        CASE degree = "critical_failure" -> "failure"
          [] degree = "failure" -> "success"
          [] degree = "success" -> "critical_success"
          [] OTHER -> degree
    ELSE IF die_value = 1 THEN
        CASE degree = "critical_success" -> "success"
          [] degree = "success" -> "failure"
          [] degree = "failure" -> "critical_failure"
          [] OTHER -> degree
    ELSE degree

(***************************************************************************)
(* engine/rules/checks.py, engine/rules/saves.py                           *)
(***************************************************************************)
\* consumes one word of the stream, the k-th
ResolveCheck(dice, k, modifier, dc) ==
    LET die == D20(dice, k)
        total == die + modifier
    IN [die |-> die, modifier |-> modifier, total |-> total, dc |-> dc,
        degree |-> DegreeOfSuccess(total, dc, die)]

SaveModifier(unit, save_type) ==
    CASE save_type = "Fortitude" -> unit.fortitude
      [] save_type = "Reflex" -> unit.reflex
      [] save_type = "Will" -> unit.will
      [] OTHER -> 0

ResolveSave(dice, k, save_type, unit, dc) ==
    ResolveCheck(dice, k, SaveModifier(unit, save_type), dc)

\* basic_save_multiplier, in halves: 0.0, 0.5, 1.0, 2.0
BasicSaveMultiplier2(degree) ==
    CASE degree = "critical_success" -> 0
      [] degree = "success" -> 1
      [] degree = "failure" -> 2
      [] OTHER -> 4

\* int(total * multiplier) for total >= 0
ScaleByHalves(total, mult2) == (total * mult2) \div 2

(***************************************************************************)
(* engine/rules/damage.py                                                  *)
(***************************************************************************)
\* a parsed formula NdM+K is [count |-> N, size |-> M, mod |-> K];
\* a flat integer K parses to [count |-> 0, size |-> 1, mod |-> K]
Formula(n, m, k) == [count |-> n, size |-> m, mod |-> k]

RECURSIVE SumSeq(_)
SumSeq(s) == IF s = <<>> THEN 0 ELSE Head(s) + SumSeq(Tail(s))

\* consumes formula.count words of the stream, starting with the k-th
RollDamage(dice, k, formula, multiplier) ==
    LET rolls == [i \in 1..formula.count |-> Randint(dice, k + i - 1, 1, formula.size)]
        total == (SumSeq(rolls) + formula.mod) * multiplier
    IN [total |-> Max(0, total), rolls |-> rolls, flat_modifier |-> formula.mod,
        used |-> formula.count]

PHYSICAL_TYPES == {"bludgeoning", "piercing", "slashing"}
ENERGY_TYPES == {"acid", "cold", "electricity", "fire", "force", "sonic"}

NormalizedDamageType(raw) ==
    CASE raw = NULL -> NULL
      [] raw = "" -> NULL
      [] raw = "lightning" -> "electricity"
      [] raw = "pierce" -> "piercing"
      [] raw = "slash" -> "slashing"
      [] raw = "bludgeon" -> "bludgeoning"
      [] OTHER -> raw

DamageTypeTags(damage_type) ==
    LET normalized == NormalizedDamageType(damage_type) IN
    IF normalized = NULL THEN {}
    ELSE {normalized}
         \cup (IF normalized \in PHYSICAL_TYPES THEN {"physical"} ELSE {})
         \cup (IF normalized \in ENERGY_TYPES THEN {"energy"} ELSE {})

\* modifiers: a function from damage-type keys to integers (a dict)
HighestMatchingModifier(modifiers, damage_tags) ==
    LET matching == {key \in DOMAIN modifiers :
                        \/ NormalizedDamageType(key) = "all"
                        \/ NormalizedDamageType(key) \in damage_tags}
        best == IF matching = {} THEN 0
                ELSE CHOOSE v \in {modifiers[key] : key \in matching} :
                        \A key \in matching : modifiers[key] <= v
    IN Max(0, best)

ApplyDamageModifiers(raw_total, damage_type, resistances, weaknesses, immunities) ==
    LET raw == Max(0, raw_total)
        normalized_type == NormalizedDamageType(damage_type)
        immunity_set == {NormalizedDamageType(x) : x \in immunities}
        Adjusted(damage_tags, resistance_total, weakness_total) ==
            IF raw = 0 THEN
                [raw_total |-> 0, applied_total |-> 0, immune |-> FALSE,
                 resistance_total |-> 0, weakness_total |-> 0]
            ELSE IF "all" \in immunity_set \/ damage_tags \cap immunity_set # {} THEN
                [raw_total |-> raw, applied_total |-> 0, immune |-> TRUE,
                 resistance_total |-> 0, weakness_total |-> 0]
            ELSE
                [raw_total |-> raw,
                 applied_total |-> Max(0, raw - resistance_total + weakness_total),
                 immune |-> FALSE,
                 resistance_total |-> Max(0, resistance_total),
                 weakness_total |-> Max(0, weakness_total)]
        Tagged(damage_tags) ==
            Adjusted(damage_tags,
                     HighestMatchingModifier(resistances, damage_tags),
                     HighestMatchingModifier(weaknesses, damage_tags))
    IN Tagged(DamageTypeTags(normalized_type))

\* a pool whose temporary hit points do not shield the real ones
ApplyDamageToPoolUnshielded(hp, temp_hp, damage_total) ==
    [incoming_total |-> Max(0, damage_total),
     absorbed_by_temp_hp |-> Min(Max(0, temp_hp), Max(0, damage_total)),
     hp_loss |-> Max(0, damage_total),
     new_hp |-> Max(0, Max(0, hp) - Max(0, damage_total)),
     new_temp_hp |-> Max(0, temp_hp) - Min(Max(0, temp_hp), Max(0, damage_total))]

ApplyDamageToPool(hp, temp_hp, damage_total) ==
    LET incoming == Max(0, damage_total)
        current_hp == Max(0, hp)
        current_temp == Max(0, temp_hp)
        absorbed == Min(current_temp, incoming)
        hp_loss == Max(0, incoming - absorbed)
    IN [incoming_total |-> incoming, absorbed_by_temp_hp |-> absorbed,
        hp_loss |-> hp_loss, new_hp |-> Max(0, current_hp - hp_loss),
        new_temp_hp |-> Max(0, current_temp - absorbed)]

(***************************************************************************)
(* engine/rules/conditions.py: conditions is a function name -> severity   *)
(***************************************************************************)
ApplyCondition(conditions, name, value) ==
    [n \in (DOMAIN conditions) \cup {name} |->
        IF n = name
        THEN Max(IF name \in DOMAIN conditions THEN conditions[name] ELSE 0, value)
        ELSE conditions[n]]

ClearCondition(conditions, name) ==
    [n \in (DOMAIN conditions) \ {name} |-> conditions[n]]

ConditionIsImmune(name, condition_immunities) ==
    name \in condition_immunities \/ "all_conditions" \in condition_immunities

(***************************************************************************)
(* engine/core/ids.py                                                      *)
(***************************************************************************)
RECURSIVE Digits(_, _)
\* the decimal digits of n, zero-padded on the left to at least `width` digits
Digits(n, width) ==
    IF n < 10 /\ width <= 1 THEN <<n>>
    ELSE Append(Digits(n \div 10, width - 1), n % 10)

\* f"ev_{sequence:06d}"
EventId(sequence) == [ns |-> "ev", digits |-> Digits(sequence, 6)]

(***************************************************************************)
(* engine/core/state.py                                                    *)
(***************************************************************************)
\* temp_hp_source keys: None, a literal, or a key built from a prefix and an id
\* (f"unit:{id}", f"effect:{effect_id}"); the empty string is a key of its own
NoSource == [ns |-> "null", key |-> "", n |-> 0]
EmptySource == [ns |-> "", key |-> "", n |-> 0]
SourceKey(ns, key) == [ns |-> ns, key |-> key, n |-> 0]
EffectSourceKey(effect_id) == [ns |-> "effect", key |-> "", n |-> effect_id]

\* a formula that is absent or empty
NoFormula == [count |-> 0, size |-> 0, mod |-> 0]

Alive(unit) == unit.hp > 0

AliveIds(s) == {u \in DOMAIN s.units : Alive(s.units[u])}

ActiveUnitId(s) == s.turn_order[s.turn_index + 1]

BattleMap == [width |-> 3, height |-> 2, blocked |-> {<<1, 1>>}]

\* unit ids compare as strings; the rank gives their lexicographic order
IdRank == [b |-> 1, c |-> 2, d |-> 3, e |-> 4, z |-> 5]

RECURSIVE SeqToSet(_)
SeqToSet(s) == IF s = <<>> THEN {} ELSE {Head(s)} \cup SeqToSet(Tail(s))

RECURSIVE FilterSeq(_, _)
\* the subsequence of s whose elements are in the set keep
FilterSeq(s, keep) ==
    IF s = <<>> THEN <<>>
    ELSE (IF Head(s) \in keep THEN <<Head(s)>> ELSE <<>>) \o FilterSeq(Tail(s), keep)

IndexOf(s, e) == CHOOSE i \in 1..Len(s) : s[i] = e /\ \A j \in 1..(i - 1) : s[j] # e

(***************************************************************************)
(* engine/core/turn_order.py                                               *)
(***************************************************************************)
\* sort key (-initiative, unit_id)
\* key = (-initiative, unit_id), as key = (-initiative) with the later id first
ActsBeforeLaterIdFirst(units, u, v) ==
    \/ units[u].initiative > units[v].initiative
    \/ units[u].initiative = units[v].initiative /\ IdRank[u] > IdRank[v]

ActsBefore(units, u, v) ==
    \/ units[u].initiative > units[v].initiative
    \/ units[u].initiative = units[v].initiative /\ IdRank[u] < IdRank[v]

RECURSIVE SortedIds(_, _)
SortedIds(units, ids) ==
    IF ids = {} THEN <<>>
    ELSE LET first == CHOOSE u \in ids : \A v \in ids \ {u} : ActsBefore(units, u, v)
         IN <<first>> \o SortedIds(units, ids \ {first})

BuildTurnOrder(units) == SortedIds(units, DOMAIN units)

NextTurnIndex(current, turn_order_size) == (current + 1) % turn_order_size

(***************************************************************************)
(* engine/grid/map.py, movement.py, areas.py, loe.py, los.py               *)
(***************************************************************************)
InBounds(s, x, y) == 0 <= x /\ x < s.battle_map.width /\ 0 <= y /\ y < s.battle_map.height

IsBlocked(s, x, y) == <<x, y>> \in s.battle_map.blocked

IsOccupied(s, x, y) ==
    \E u \in DOMAIN s.units : Alive(s.units[u]) /\ s.units[u].x = x /\ s.units[u].y = y

ManhattanDistance(ax, ay, bx, by) == Abs(ax - bx) + Abs(ay - by)

\* can_step_to without the is_occupied test
CanStepToOccupied(s, unit, x, y) ==
    /\ InBounds(s, x, y)
    /\ ~IsBlocked(s, x, y)
    /\ ManhattanDistance(unit.x, unit.y, x, y) = 1

CanStepTo(s, unit, x, y) ==
    /\ InBounds(s, x, y)
    /\ ~IsBlocked(s, x, y)
    /\ ~IsOccupied(s, x, y)
    /\ ManhattanDistance(unit.x, unit.y, x, y) = 1

RECURSIVE Bresenham(_, _, _, _, _, _, _, _, _)
Bresenham(x, y, x1, y1, dx, dy, sx, sy, err) ==
    IF x = x1 /\ y = y1 THEN <<<<x, y>>>>
    ELSE LET e2 == 2 * err
             stepx == e2 >= dy
             stepy == e2 <= dx
             nerr == err + (IF stepx THEN dy ELSE 0) + (IF stepy THEN dx ELSE 0)
             nx == IF stepx THEN x + sx ELSE x
             ny == IF stepy THEN y + sy ELSE y
         IN <<<<x, y>>>> \o Bresenham(nx, ny, x1, y1, dx, dy, sx, sy, nerr)

LinePoints(x0, y0, x1, y1) ==
    LET dx == Abs(x1 - x0)
        dy == -Abs(y1 - y0)
        sx == IF x0 < x1 THEN 1 ELSE -1
        sy == IF y0 < y1 THEN 1 ELSE -1
    IN Bresenham(x0, y0, x1, y1, dx, dy, sx, sy, dx + dy)

RadiusPoints(cx, cy, radius) ==
    {p \in ((cx - radius)..(cx + radius)) \X ((cy - radius)..(cy + radius)) :
        Abs(p[1] - cx) + Abs(p[2] - cy) <= radius}

TilesFromFeet(feet) == Max(1, (feet + 4) \div 5)

BlockedInBounds(s, p) == InBounds(s, p[1], p[2]) /\ IsBlocked(s, p[1], p[2])

HasTileLineOfEffect(s, source_x, source_y, target_x, target_y) ==
    /\ InBounds(s, source_x, source_y)
    /\ InBounds(s, target_x, target_y)
    /\ LET path == LinePoints(source_x, source_y, target_x, target_y) IN
       \A idx \in 2..Len(path) :
          LET p == path[idx]
              prev == path[idx - 1]
              step_x == p[1] - prev[1]
              step_y == p[2] - prev[2]
          IN /\ ~(/\ Abs(step_x) = 1 /\ Abs(step_y) = 1
                  /\ BlockedInBounds(s, <<prev[1] + step_x, prev[2]>>)
                  /\ BlockedInBounds(s, <<prev[1], prev[2] + step_y>>))
             /\ ~IsBlocked(s, p[1], p[2])

HasLineOfEffect(s, source, target) ==
    /\ Alive(source)
    /\ Alive(target)
    /\ HasTileLineOfEffect(s, source.x, source.y, target.x, target.y)

HasLineOfSight(s, source, target) == HasLineOfEffect(s, source, target)

Sign(value) == IF value > 0 THEN 1 ELSE IF value < 0 THEN -1 ELSE 0

CoverGradeBetweenTiles(s, source_x, source_y, target_x, target_y) ==
    LET sx == Sign(source_x - target_x)
        sy == Sign(source_y - target_y)
        candidates ==
            IF sx = 0 THEN {<<target_x - 1, target_y>>, <<target_x + 1, target_y>>}
            ELSE IF sy = 0 THEN {<<target_x, target_y - 1>>, <<target_x, target_y + 1>>}
            ELSE {<<target_x + sx, target_y>>, <<target_x, target_y + sy>>}
        blocked_count == Cardinality({p \in candidates : BlockedInBounds(s, p)})
    IN IF ~HasTileLineOfEffect(s, source_x, source_y, target_x, target_y) THEN "blocked"
       ELSE IF sx = 0 /\ sy = 0 THEN "none"
       ELSE IF blocked_count >= 2 THEN "greater"
       ELSE IF blocked_count = 1 THEN "standard"
       ELSE "none"

\* cover that never counts for more than standard
CoverAcBonusFromGradeStandard(grade) == IF grade \in {"standard", "greater"} THEN 2 ELSE 0

\* cover_ac_bonus_from_grade
CoverAcBonusFromGrade(grade) ==
    IF grade = "standard" THEN 2 ELSE IF grade = "greater" THEN 4 ELSE 0

CoverGradeForUnits(s, source, target) ==
    IF ~Alive(source) \/ ~Alive(target) THEN "blocked"
    ELSE CoverGradeBetweenTiles(s, source.x, source.y, target.x, target.y)

CoverAcBonusForUnits(s, source, target) ==
    IF ~Alive(source) \/ ~Alive(target) THEN 0
    ELSE CoverAcBonusFromGrade(CoverGradeBetweenTiles(s, source.x, source.y, target.x, target.y))

(***************************************************************************)
(* Working copies.  A reduction works on w = [s, ev, k]: the state copy,   *)
(* the events emitted so far and the number of RNG words consumed so far.  *)
(* A lifecycle hook works on [s, le, k], le the (type, payload) pairs.     *)
(***************************************************************************)
\* engine/core/reducer.py: _append_event
AppendEvent(w, event_type, payload) ==
    LET sequence == w.s.event_sequence + 1 IN
    [w EXCEPT !.s.event_sequence = sequence,
              !.ev = Append(@, [event_id |-> EventId(sequence),
                                round |-> w.s.round_number,
                                active_unit |-> ActiveUnitId(w.s),
                                type |-> event_type,
                                payload |-> payload])]

RECURSIVE EmitLifecycleEvents(_, _)
EmitLifecycleEvents(w, lifecycle_events) ==
    IF lifecycle_events = <<>> THEN w
    ELSE EmitLifecycleEvents(
            AppendEvent(w, Head(lifecycle_events).type, Head(lifecycle_events).payload),
            Tail(lifecycle_events))

\* the pool update every damage site performs on its target
DamageUnit(unit, damage_total) ==
    LET applied_damage == ApplyDamageToPool(unit.hp, unit.temp_hp, damage_total)
        cleared == applied_damage.new_temp_hp = 0
    IN [unit EXCEPT !.hp = applied_damage.new_hp,
                    !.temp_hp = applied_damage.new_temp_hp,
                    !.temp_hp_source = IF cleared THEN NoSource ELSE @,
                    !.temp_hp_owner_effect_id = IF cleared THEN NoInt ELSE @]

MarkUnconsciousIfDown(unit) ==
    IF unit.hp = 0
    THEN [unit EXCEPT !.conditions = ApplyCondition(@, "unconscious", 1)]
    ELSE unit

MitigateFor(unit, raw_total, damage_type) ==
    ApplyDamageModifiers(raw_total, damage_type, unit.resistances, unit.weaknesses,
                         unit.immunities)

(***************************************************************************)
(* engine/effects/lifecycle.py                                             *)
(***************************************************************************)
StrOr(value, default) == IF value = NULL \/ value = "" THEN default ELSE value

TargetPresentOnly(s, effect) ==
    /\ effect.target_unit_id # NULL
    /\ effect.target_unit_id \in DOMAIN s.units

\* target is None or not target.alive, negated
TargetPresentAndAlive(s, effect) ==
    /\ effect.target_unit_id # NULL
    /\ effect.target_unit_id \in DOMAIN s.units
    /\ Alive(s.units[effect.target_unit_id])

\* on_apply, kind = "condition"
OnApplyCondition(lc, idx) ==
    LET effect == lc.s.effects[idx]
        target == lc.s.units[effect.target_unit_id]
        name == effect.payload.name
        value == effect.payload.value
        applied == ~ConditionIsImmune(name, target.condition_immunities)
    IN IF name = "" THEN lc
       ELSE [lc EXCEPT
               !.s.units[effect.target_unit_id].conditions =
                   IF applied THEN ApplyCondition(@, name, value) ELSE @,
               !.le = Append(@, [type |-> "effect_apply",
                                 payload |-> [effect_id |-> effect.effect_id,
                                              kind |-> effect.kind,
                                              target |-> effect.target_unit_id,
                                              condition |-> name,
                                              value |-> value,
                                              applied |-> applied]])]

\* a pool of another source gives way to every amount, even a lower one
CrossSourceReplacesAlways(cross_source, amount, before) == cross_source # "ignore"

\* on_apply, kind = "temp_hp": the cross-source branches that overwrite the pool
CrossSourceReplaces(cross_source, amount, before) ==
    \/ cross_source = "replace"
    \/ cross_source = "higher_only" /\ amount > before

\* on_apply, kind = "temp_hp"
OnApplyTempHp(lc, idx) ==
    LET effect == lc.s.effects[idx]
        target == lc.s.units[effect.target_unit_id]
        amount == effect.payload.amount
        stack_mode == StrOr(effect.payload.stack_mode, "max")
        cross_source == StrOr(effect.payload.cross_source, "higher_only")
        source_key == IF effect.payload.source_key \notin {NoSource, EmptySource}
                      THEN effect.payload.source_key
                      ELSE IF effect.source_unit_id # NULL
                           THEN SourceKey("unit", effect.source_unit_id)
                           ELSE EffectSourceKey(effect.effect_id)
        before == target.temp_hp
        before_source == target.temp_hp_source
        before_owner == target.temp_hp_owner_effect_id
        valid == /\ amount > 0
                 /\ stack_mode \in {"max", "add"}
                 /\ cross_source \in {"higher_only", "replace", "ignore"}
        same_source == before_source = source_key \/ (before = 0 /\ before_source = NoSource)
        replaces == valid /\ ~same_source /\ CrossSourceReplaces(cross_source, amount, before)
        decision == IF ~valid THEN "ignored"
                    ELSE IF same_source THEN "same_source_refresh"
                    ELSE IF replaces THEN "cross_source_replaced"
                    ELSE "cross_source_ignored"
        Granted(new_temp, new_source, new_owner, granted, applied) ==
       [lc EXCEPT
          !.s.units[effect.target_unit_id].temp_hp = new_temp,
          !.s.units[effect.target_unit_id].temp_hp_source = new_source,
          !.s.units[effect.target_unit_id].temp_hp_owner_effect_id = new_owner,
          !.s.effects[idx].payload.applied_temp_hp = granted,
          !.s.effects[idx].payload.temp_hp_source_key = source_key,
          !.s.effects[idx].payload.stack_mode = stack_mode,
          !.s.effects[idx].payload.cross_source = cross_source,
          !.le = Append(@, [type |-> "effect_apply",
                            payload |-> [effect_id |-> effect.effect_id,
                                         kind |-> effect.kind,
                                         target |-> effect.target_unit_id,
                                         requested_amount |-> amount,
                                         temp_hp_before |-> before,
                                         temp_hp_after |-> new_temp,
                                         granted |-> granted,
                                         applied |-> applied,
                                         decision |-> decision]])]
        Settled(new_temp, new_source, new_owner) ==
            Granted(new_temp, new_source, new_owner, Max(0, new_temp - before),
                    \/ new_temp # before
                    \/ new_source # before_source
                    \/ new_owner # before_owner)
        Stacked(after, after_source, after_owner) ==
            Settled(Max(0, after),
                    IF Max(0, after) > 0 THEN after_source ELSE NoSource,
                    IF Max(0, after) > 0 THEN after_owner ELSE NoInt)
        Decided(after) ==
            Stacked(after,
                    IF valid /\ same_source
                    THEN (IF after > 0 THEN source_key ELSE NoSource)
                    ELSE IF replaces THEN source_key
                    ELSE before_source,
                    IF valid /\ same_source
                    THEN (IF after > 0 THEN effect.effect_id ELSE NoInt)
                    ELSE IF replaces THEN effect.effect_id
                    ELSE before_owner)
    IN Decided(IF valid /\ same_source
               THEN (IF stack_mode = "add" THEN before + amount ELSE Max(before, amount))
               ELSE IF replaces THEN amount
               ELSE before)

\* the affliction payload without a save; the save detail of a tick without one
NoSave == [dc |-> 0, save_type |-> ""]
NoSaveDetail ==
    [dc |-> 0, save_type |-> "", die |-> 0, modifier |-> 0, total |-> 0, degree |-> NULL]

\* _stage_by_number: the position of the first stage with the number, 0 for None
StageByNumber(stages, stage_number) ==
    LET hits == {i \in 1..Len(stages) : stages[i].stage = stage_number}
    IN IF hits = {} THEN 0 ELSE CHOOSE i \in hits : \A j \in hits : i <= j

\* a stage that lasts one round whatever its duration
DurationToRoundsOne(duration, default_rounds) == default_rounds

\* _duration_to_rounds
DurationToRounds(duration, default_rounds) ==
    IF duration.amount <= 0 THEN default_rounds
    ELSE CASE duration.unit = "round" -> duration.amount
           [] duration.unit = "minute" -> duration.amount * 10
           [] duration.unit = "hour" -> duration.amount * 600
           [] duration.unit = "day" -> duration.amount * 14400
           [] OTHER -> default_rounds

\* int(target.conditions.get(name, 0))
ConditionValue(conditions, name) ==
    IF name \in DOMAIN conditions THEN conditions[name] ELSE 0

\* _apply_affliction_stage, the loop over stage["damage"]: acc = [unit, k, results]
RECURSIVE StageDamage(_, _, _, _)
StageDamage(acc, damage, i, dice) ==
    IF i > Len(damage) THEN acc
    ELSE IF damage[i] = NoFormula THEN StageDamage(acc, damage, i + 1, dice)
    ELSE LET Rolled(roll) ==
                 [unit |-> DamageUnit(acc.unit, roll.total), k |-> acc.k + roll.used,
                  results |-> Append(acc.results, roll.total)]
         IN StageDamage(Rolled(RollDamage(dice, acc.k + 1, damage[i], 1)),
                        damage, i + 1, dice)

\* _apply_affliction_stage, the loop over stage["conditions"]:
\* acc = [conditions, values, applied, skipped]
RECURSIVE StageConditions(_, _, _, _, _)
StageConditions(acc, conds, i, old_applied, condition_immunities) ==
    IF i > Len(conds) THEN acc
    ELSE LET name == conds[i].condition
             value == IF conds[i].value = 0 THEN 1 ELSE conds[i].value
             replaces == /\ name \in DOMAIN old_applied
                         /\ ConditionValue(acc.conditions, name) = old_applied[name]
             Next(after) == StageConditions(after, conds, i + 1, old_applied,
                                            condition_immunities)
         IN IF name = "" THEN Next(acc)
            ELSE IF ConditionIsImmune(name, condition_immunities)
            THEN Next([acc EXCEPT !.skipped = Append(@, [name |-> name, value |-> value])])
            ELSE Next([acc EXCEPT
                         !.conditions =
                             IF replaces
                             THEN [n \in DOMAIN @ \cup {name} |->
                                      IF n = name THEN value ELSE @[n]]
                             ELSE ApplyCondition(@, name, value),
                         !.values = [n \in DOMAIN @ \cup {name} |->
                                        IF n = name THEN value ELSE @[n]],
                         !.applied = Append(@, [name |-> name, value |-> value])])

\* _apply_affliction_stage: [lc, result], result the dict it returns
ApplyAfflictionStage(lc, idx, dice, stage_number) ==
    LET effect == lc.s.effects[idx]
        tid == effect.target_unit_id
        old_applied == effect.payload.applied_conditions
        persistent_conditions == effect.payload.persistent_conditions
        Tracked(stage, damaged, conds, cleared, after_clear) ==
            LET kept == {n \in persistent_conditions \cap DOMAIN old_applied :
                            ConditionValue(after_clear, n) = old_applied[n]}
                stage_rounds == DurationToRounds(stage.duration, 1)
            IN [lc |-> [lc EXCEPT
                          !.s.units[tid] =
                              MarkUnconsciousIfDown([damaged.unit EXCEPT
                                                       !.conditions = after_clear]),
                          !.s.effects[idx].payload.applied_conditions =
                              [n \in DOMAIN conds.values \cup kept |->
                                  IF n \in kept THEN old_applied[n] ELSE conds.values[n]],
                          !.s.effects[idx].payload.stage_rounds_remaining = stage_rounds,
                          !.k = damaged.k],
                result |-> [stage |-> stage_number, applied |-> TRUE,
                            damage |-> damaged.results, conditions |-> conds.applied,
                            skipped_conditions |-> conds.skipped,
                            cleared_conditions |-> cleared,
                            stage_rounds |-> stage_rounds,
                            target_hp |-> damaged.unit.hp]]
        Cleared(stage, damaged, conds, cleared) ==
            Tracked(stage, damaged, conds, cleared,
                    [n \in DOMAIN conds.conditions \ cleared |-> conds.conditions[n]])
        Conditioned(stage, damaged, conds) ==
            Cleared(stage, damaged, conds,
                    {n \in DOMAIN old_applied :
                        /\ n \notin DOMAIN conds.values
                        /\ n \notin persistent_conditions
                        /\ ConditionValue(conds.conditions, n) = old_applied[n]})
        Damaged(stage, damaged) ==
            Conditioned(stage, damaged,
                        StageConditions([conditions |-> damaged.unit.conditions,
                                         values |-> [n \in {} |-> 0],
                                         applied |-> <<>>, skipped |-> <<>>],
                                        stage.conditions, 1, old_applied,
                                        damaged.unit.condition_immunities))
        Staged(stage) ==
            Damaged(stage, StageDamage([unit |-> lc.s.units[tid], k |-> lc.k,
                                        results |-> <<>>],
                                       stage.damage, 1, dice))
        Found(at) ==
            IF at = 0
            THEN [lc |-> lc,
                  result |-> [stage |-> stage_number, applied |-> FALSE,
                              reason |-> "stage_not_found",
                              target_hp |-> lc.s.units[tid].hp]]
            ELSE Staged(effect.payload.stages[at])
    IN IF ~TargetPresentAndAlive(lc.s, effect)
       THEN [lc |-> lc,
             result |-> [stage |-> stage_number, applied |-> FALSE,
                         reason |-> "target_missing_or_dead"]]
       ELSE Found(StageByNumber(effect.payload.stages, stage_number))

\* a save that moves the affliction by one stage whatever its degree
AfflictionDeltaUnit(degree) ==
    IF degree \in {"critical_success", "success"} THEN -1 ELSE 1

\* _affliction_delta
AfflictionDelta(degree) ==
    CASE degree = "critical_success" -> -2
      [] degree = "success" -> -1
      [] degree = "failure" -> 1
      [] OTHER -> 2

\* int(effect.payload.get("current_stage") or 1)
CurrentStage(effect) ==
    IF effect.payload.current_stage = 0 THEN 1 ELSE effect.payload.current_stage

\* _on_affliction_tick
AfflictionTick(lc, idx, dice) ==
    LET effect == lc.s.effects[idx]
        tid == effect.target_unit_id
        current_stage == CurrentStage(effect)
        stage_numbers == {effect.payload.stages[i].stage :
                             i \in 1..Len(effect.payload.stages)}
        max_stage == IF stage_numbers = {} THEN current_stage
                     ELSE CHOOSE m \in stage_numbers : \A n \in stage_numbers : n <= m
        stage_rounds_remaining == IF effect.payload.stage_rounds_remaining = 0 THEN 1
                                  ELSE effect.payload.stage_rounds_remaining
        save_cfg == effect.payload.save
        rolls == save_cfg.dc > 0
        save_type == StrOr(save_cfg.save_type, "Fortitude")
        Tick(stage_to, save_detail, waiting, cured, more) ==
            [type |-> "effect_tick",
             payload |-> [effect_id |-> effect.effect_id, kind |-> effect.kind,
                          target |-> tid, stage_from |-> current_stage,
                          stage_to |-> stage_to, save |-> save_detail,
                          waiting |-> waiting, cured |-> cured, detail |-> more]]
        Progressed(next_stage, save_detail, moved) ==
            IF next_stage <= 0
            THEN [moved EXCEPT
                    !.s.effects[idx].duration_rounds = 0,
                    !.le = Append(@, Tick(next_stage, save_detail, FALSE, TRUE,
                                          [target_hp |-> moved.s.units[tid].hp]))]
            ELSE LET Applied(staged) ==
                         [staged.lc EXCEPT
                            !.le = Append(@, Tick(next_stage, save_detail, FALSE, FALSE,
                                                  staged.result))]
                 IN Applied(ApplyAfflictionStage(moved, idx, dice, next_stage))
        Moved(next_stage, save_detail) ==
            Progressed(next_stage, save_detail,
                       [lc EXCEPT !.s.effects[idx].payload.current_stage = next_stage,
                                  !.k = IF rolls THEN @ + 1 ELSE @])
        Saved(save) ==
            Moved(Max(0, Min(max_stage, current_stage + AfflictionDelta(save.degree))),
                  [dc |-> save_cfg.dc, save_type |-> save_type, die |-> save.die,
                   modifier |-> save.modifier, total |-> save.total,
                   degree |-> save.degree])
    IN IF ~TargetPresentAndAlive(lc.s, effect) THEN lc
       ELSE IF stage_rounds_remaining > 1
       THEN [lc EXCEPT
               !.s.effects[idx].payload.stage_rounds_remaining = stage_rounds_remaining - 1,
               !.le = Append(@, Tick(current_stage, NoSaveDetail, TRUE, FALSE,
                                     [remaining_stage_rounds |-> stage_rounds_remaining - 1,
                                      target_hp |-> lc.s.units[tid].hp]))]
       ELSE IF rolls
       THEN Saved(ResolveSave(dice, lc.k + 1, save_type, lc.s.units[tid], save_cfg.dc))
       ELSE Moved(current_stage, NoSaveDetail)

\* on_apply, kind = "affliction"
OnApplyAffliction(lc, idx, dice) ==
    LET effect == lc.s.effects[idx]
        Applied(staged) ==
            [staged.lc EXCEPT
               !.le = Append(@, [type |-> "effect_apply",
                                 payload |-> [effect_id |-> effect.effect_id,
                                              kind |-> effect.kind,
                                              target |-> effect.target_unit_id,
                                              stage |-> CurrentStage(effect),
                                              stage_result |-> staged.result]])]
    IN Applied(ApplyAfflictionStage(lc, idx, dice, CurrentStage(effect)))

OnApply(lc, idx, dice) ==
    LET effect == lc.s.effects[idx] IN
    IF effect.target_unit_id = NULL \/ ~TargetPresentAndAlive(lc.s, effect) THEN lc
    ELSE IF effect.kind = "condition" THEN OnApplyCondition(lc, idx)
    ELSE IF effect.kind = "temp_hp" THEN OnApplyTempHp(lc, idx)
    ELSE IF effect.kind = "affliction" THEN OnApplyAffliction(lc, idx, dice)
    ELSE [lc EXCEPT !.le = Append(@, [type |-> "effect_apply",
                                      payload |-> [effect_id |-> effect.effect_id,
                                                   kind |-> effect.kind,
                                                   target |-> effect.target_unit_id]])]

\* a recovery that only a critical success earns
RecoverySucceededOnCritical(degree) == degree = "critical_success"

\* _apply_persistent_damage: the degrees of the flat check that end the effect
RecoverySucceeded(degree) == degree \in {"success", "critical_success"}

\* _apply_persistent_damage
ApplyPersistentDamage(lc, idx, dice) ==
    LET effect == lc.s.effects[idx]
        tid == effect.target_unit_id
        target == lc.s.units[tid]
        formula == effect.payload.formula
        damage_type == IF effect.payload.damage_type = "" THEN NULL
                       ELSE effect.payload.damage_type
        has_check == effect.payload.recovery_check
        Ticked(used, applied_total, damaged, degree) ==
            [lc EXCEPT
               !.s.units[tid] = damaged,
               !.s.effects[idx].payload.expire_now =
                   IF has_check /\ RecoverySucceeded(degree) THEN TRUE ELSE @,
               !.k = @ + used + (IF has_check THEN 1 ELSE 0),
               !.le = Append(@, [type |-> "effect_tick",
                                 payload |-> [effect_id |-> effect.effect_id,
                                              kind |-> effect.kind,
                                              target |-> tid,
                                              total |-> applied_total,
                                              recovery |-> IF has_check THEN degree
                                                           ELSE NULL,
                                              target_hp |-> damaged.hp]])]
        Mitigated(used, applied_total) ==
            Ticked(used, applied_total,
                   MarkUnconsciousIfDown(DamageUnit(target, applied_total)),
                   ResolveCheck(dice, lc.k + used + 1, effect.payload.recovery_modifier,
                                effect.payload.recovery_dc).degree)
        Rolled(roll) ==
            Mitigated(roll.used, MitigateFor(target, roll.total, damage_type).applied_total)
    IN IF ~TargetPresentAndAlive(lc.s, effect) \/ formula = NoFormula THEN lc
       ELSE Rolled(RollDamage(dice, lc.k + 1, formula, 1))

OnTurnStart(lc, idx, dice) ==
    IF lc.s.effects[idx].kind = "persistent_damage"
    THEN ApplyPersistentDamage(lc, idx, dice)
    ELSE lc

OnTurnEnd(lc, idx, dice) ==
    IF lc.s.effects[idx].kind = "persistent_damage"
    THEN ApplyPersistentDamage(lc, idx, dice)
    ELSE IF lc.s.effects[idx].kind = "affliction"
    THEN AfflictionTick(lc, idx, dice)
    ELSE lc

\* on_expire: the effect is effects[idx]; it is removed by the caller
OnExpire(lc, idx) ==
    LET effect == lc.s.effects[idx]
        tid == effect.target_unit_id
        present == tid # NULL /\ tid \in DOMAIN lc.s.units
        target == lc.s.units[tid]
        generic == [type |-> "effect_expire",
                    payload |-> [effect_id |-> effect.effect_id,
                                 kind |-> effect.kind,
                                 target |-> tid]]
    IN IF effect.kind = "condition" /\ present
          /\ effect.payload.clear_on_expire /\ effect.payload.name # ""
       THEN [lc EXCEPT
               !.s.units[tid].conditions = ClearCondition(@, effect.payload.name),
               !.le = Append(@, [type |-> "effect_expire",
                                 payload |-> [effect_id |-> effect.effect_id,
                                              kind |-> effect.kind,
                                              target |-> tid,
                                              cleared_condition |-> effect.payload.name]])]
       ELSE IF effect.kind = "affliction" /\ present
       THEN LET applied_conditions == effect.payload.applied_conditions
                cleared == {n \in DOMAIN applied_conditions :
                               /\ n \notin effect.payload.persistent_conditions
                               /\ ConditionValue(target.conditions, n)
                                    = applied_conditions[n]}
            IN [lc EXCEPT
                  !.s.units[tid].conditions = [n \in DOMAIN @ \ cleared |-> @[n]],
                  !.le = Append(@, [type |-> "effect_expire",
                                    payload |-> [effect_id |-> effect.effect_id,
                                                 kind |-> effect.kind,
                                                 target |-> tid,
                                                 cleared_conditions |-> cleared,
                                                 persistent_conditions |->
                                                    effect.payload.persistent_conditions]])]
       ELSE IF effect.kind = "temp_hp" /\ present
       THEN LET remove_on_expire == effect.payload.remove_on_expire
                source_key == IF effect.payload.temp_hp_source_key = NoSource
                              THEN EmptySource
                              ELSE effect.payload.temp_hp_source_key
                owner_match == target.temp_hp_owner_effect_id = effect.effect_id
                source_match == target.temp_hp_source = source_key
                removes == remove_on_expire /\ owner_match /\ source_match
                           /\ target.temp_hp > 0
                removed == IF removes THEN target.temp_hp ELSE 0
            IN [lc EXCEPT
                  !.s.units[tid].temp_hp = IF removes THEN 0 ELSE @,
                  !.s.units[tid].temp_hp_source = IF removes THEN NoSource ELSE @,
                  !.s.units[tid].temp_hp_owner_effect_id = IF removes THEN NoInt ELSE @,
                  !.le = Append(@, [type |-> "effect_expire",
                                    payload |-> [effect_id |-> effect.effect_id,
                                                 kind |-> effect.kind,
                                                 target |-> tid,
                                                 remove_on_expire |-> remove_on_expire,
                                                 owner_match |-> owner_match,
                                                 source_match |-> source_match,
                                                 removed_temp_hp |-> removed,
                                                 temp_hp_after |-> IF removes THEN 0
                                                                   ELSE target.temp_hp]])]
       ELSE [lc EXCEPT !.le = Append(@, generic)]

\* index in effects of the effect with this id, 0 when there is none
EffectIndex(s, effect_id) ==
    IF \E i \in 1..Len(s.effects) : s.effects[i].effect_id = effect_id
    THEN CHOOSE i \in 1..Len(s.effects) : s.effects[i].effect_id = effect_id
    ELSE 0

RemoveAt(seq, idx) == SubSeq(seq, 1, idx - 1) \o SubSeq(seq, idx + 1, Len(seq))

\* process_timing, the loop over list(state.effects.values()):
\* lt = [lc, to_expire]; the effects are visited by position
RECURSIVE TimingLoop(_, _, _, _, _)
TimingLoop(lt, idx, active, timing, dice) ==
    IF idx > Len(lt.lc.s.effects) THEN lt
    ELSE LET effect == lt.lc.s.effects[idx]
             \* the duration is read after the tick, which may have set it
             Counted(popped, remaining) ==
                 [lc |-> [popped EXCEPT
                            !.s.effects[idx].duration_rounds = remaining,
                            !.le = Append(@, [type |-> "effect_duration",
                                              payload |->
                                                 [effect_id |-> effect.effect_id,
                                                  remaining_rounds |-> remaining,
                                                  target |-> effect.target_unit_id]])],
                  to_expire |-> IF remaining <= 0
                                THEN Append(lt.to_expire, effect.effect_id)
                                ELSE lt.to_expire]
             \* the effect after its tick: expire_now popped, the duration counted
             Visited(expire_now, popped) ==
                 IF expire_now
                 THEN [lc |-> popped,
                       to_expire |-> Append(lt.to_expire, effect.effect_id)]
                 ELSE IF timing = "turn_end"
                         /\ popped.s.effects[idx].duration_rounds # NoInt
                 THEN Counted(popped, popped.s.effects[idx].duration_rounds - 1)
                 ELSE [lc |-> popped, to_expire |-> lt.to_expire]
             Ticked(ticked) ==
                 Visited(ticked.s.effects[idx].payload.expire_now,
                         [ticked EXCEPT !.s.effects[idx].payload.expire_now = FALSE])
         IN IF effect.target_unit_id # active
            THEN TimingLoop(lt, idx + 1, active, timing, dice)
            ELSE TimingLoop(Ticked(IF effect.tick_timing # timing THEN lt.lc
                                   ELSE IF timing = "turn_start"
                                        THEN OnTurnStart(lt.lc, idx, dice)
                                        ELSE OnTurnEnd(lt.lc, idx, dice)),
                            idx + 1, active, timing, dice)

RECURSIVE ExpireAll(_, _)
ExpireAll(lc, to_expire) ==
    IF to_expire = <<>> THEN lc
    ELSE LET idx == EffectIndex(lc.s, Head(to_expire)) IN
         IF idx = 0 THEN ExpireAll(lc, Tail(to_expire))
         ELSE ExpireAll([OnExpire(lc, idx) EXCEPT !.s.effects = RemoveAt(@, idx)],
                        Tail(to_expire))

\* process_timing(state, rng, timing) on the working copy, events emitted
ProcessTiming(w, timing, dice) ==
    LET Emitted(done) == EmitLifecycleEvents([w EXCEPT !.s = done.s, !.k = done.k], done.le)
        Expired(lt) == Emitted(ExpireAll(lt.lc, lt.to_expire))
    IN Expired(TimingLoop([lc |-> [s |-> w.s, le |-> <<>>, k |-> w.k],
                           to_expire |-> <<>>],
                          1, ActiveUnitId(w.s), timing, dice))

(***************************************************************************)
(* engine/io/scenario_loader.py: the battle under check.  Three units on a *)
(* 3 x 2 map with one blocked tile; unit e acts first.                     *)
(***************************************************************************)
EmptyDict == [key \in {} |-> 0]

RawUnit(id, team, hp, position, initiative) ==
    [id |-> id, team |-> team, hp |-> hp, max_hp |-> 0, has_position |-> TRUE,
     position |-> position, initiative |-> initiative, attack_mod |-> 0, ac |-> 10,
     damage |-> Formula(1, 1, 0), temp_hp |-> 0, attack_damage_type |-> "physical",
     fortitude |-> 0, reflex |-> 0, will |-> 0, conditions |-> EmptyDict,
     condition_immunities |-> {}, resistances |-> EmptyDict, weaknesses |-> EmptyDict,
     immunities |-> {}]

ScenarioUnits ==
    << RawUnit("e", "pc", 2, <<0, 0>>, 3),
       [RawUnit("b", "enemy", 1, <<1, 0>>, 2) EXCEPT !.temp_hp = 1],
       [RawUnit("c", "enemy", 2, <<2, 0>>, 1) EXCEPT
            !.resistances = [fire |-> 1], !.condition_immunities = {"prone"}] >>

\* battle_state_from_scenario, the UnitState of one raw unit: the fields that
\* state.py declares (the loader's attack_damage_bypass keyword names none)
LoadUnit(raw) ==
    [unit_id |-> raw.id, team |-> raw.team, hp |-> raw.hp, max_hp |-> raw.hp,
     x |-> raw.position[1], y |-> raw.position[2], initiative |-> raw.initiative,
     attack_mod |-> raw.attack_mod, ac |-> raw.ac, damage |-> raw.damage,
     temp_hp |-> raw.temp_hp,
     temp_hp_source |-> IF raw.temp_hp > 0 THEN SourceKey("initial", "") ELSE NoSource,
     temp_hp_owner_effect_id |-> NoInt,
     attack_damage_type |-> raw.attack_damage_type,
     fortitude |-> raw.fortitude, reflex |-> raw.reflex, will |-> raw.will,
     actions_remaining |-> 3, reaction_available |-> TRUE,
     conditions |-> EmptyDict, condition_immunities |-> raw.condition_immunities,
     resistances |-> raw.resistances, weaknesses |-> raw.weaknesses,
     immunities |-> raw.immunities]

BattleStateFromScenario(raw_units) ==
    LET ids == {raw_units[i].id : i \in 1..Len(raw_units)}
        units == [id \in ids |->
                    LoadUnit(raw_units[CHOOSE i \in 1..Len(raw_units) : raw_units[i].id = id])]
    IN [round_number |-> 1, turn_index |-> 0, turn_order |-> BuildTurnOrder(units),
        units |-> units, unit_keys |-> [i \in 1..Len(raw_units) |-> raw_units[i].id],
        battle_map |-> BattleMap,
        effects |-> <<>>, flags |-> EmptyDict, event_sequence |-> 0]

(***************************************************************************)
(* engine/core/reducer.py                                                  *)
(***************************************************************************)
\* _advance_turn: the do-while loop, one iteration per call
RECURSIVE AdvanceLoop(_, _)
\* if nxt <= state.turn_index, as nxt == 0 and a living unit there
AdvanceLoopCountingLivingWraps(s, start) ==
    LET nxt == NextTurnIndex(s.turn_index, Len(s.turn_order))
        fresh == nxt = 0 /\ Alive(s.units[s.turn_order[1]])
        moved == [s EXCEPT !.round_number = IF fresh THEN @ + 1 ELSE @,
                           !.turn_index = nxt]
        uid == ActiveUnitId(moved)
    IN IF Alive(moved.units[uid])
       THEN [moved EXCEPT !.units[uid].actions_remaining = 3,
                          !.units[uid].reaction_available = TRUE]
       ELSE IF moved.turn_index = start THEN moved
       ELSE AdvanceLoop(moved, start)

AdvanceLoop(s, start) ==
    LET nxt == NextTurnIndex(s.turn_index, Len(s.turn_order))
        moved == [s EXCEPT !.round_number = IF nxt <= s.turn_index THEN @ + 1 ELSE @,
                           !.turn_index = nxt]
        uid == ActiveUnitId(moved)
    IN IF Alive(moved.units[uid])
       THEN [moved EXCEPT !.units[uid].actions_remaining = 3,
                          !.units[uid].reaction_available = TRUE]
       ELSE IF moved.turn_index = start THEN moved
       ELSE AdvanceLoop(moved, start)

AdvanceTurn(s) == IF Len(s.turn_order) = 0 THEN s ELSE AdvanceLoop(s, s.turn_index)

\* the two ways a reduction ends: a raised ReductionError, or a return
Raise(w, message) == [ok |-> FALSE, w |-> w, err |-> message]
Return(w) == [ok |-> TRUE, w |-> w, err |-> ""]

SpendActionTwice(w, actor_id) ==
    [w EXCEPT !.s.units[actor_id].actions_remaining = @ - 2]

\* actor.actions_remaining -= 1
SpendAction(w, actor_id) == [w EXCEPT !.s.units[actor_id].actions_remaining = @ - 1]

\* the damage every save-based command applies to one target:
\* save, roll, scale, mitigate, pool, unconscious
SaveDamageOn(w, target_id, cmd, dice) ==
    LET target == w.s.units[target_id]
        damage_type == IF cmd.damage_type = "" THEN NULL ELSE cmd.damage_type
        Damaged(degree, used, applied_total, damaged) ==
            [w |-> [w EXCEPT !.s.units[target_id] = damaged, !.k = @ + 1 + used],
             resolution |-> [target |-> target_id, degree |-> degree,
                             applied_total |-> applied_total,
                             target_hp |-> damaged.hp]]
        Mitigated(degree, used, applied_total) ==
            Damaged(degree, used, applied_total,
                    MarkUnconsciousIfDown(DamageUnit(target, applied_total)))
        Rolled(degree, damage_roll) ==
            Mitigated(degree, damage_roll.used,
                      MitigateFor(target,
                                  ScaleByHalves(damage_roll.total,
                                                BasicSaveMultiplier2(degree)),
                                  damage_type).applied_total)
    IN Rolled(ResolveSave(dice, w.k + 1, cmd.save_type, target, cmd.dc).degree,
              RollDamage(dice, w.k + 2, cmd.damage, 1))

Move(w, cmd) ==
    LET actor == w.s.units[cmd.actor]
        moved == [w EXCEPT !.s.units[cmd.actor].x = cmd.x,
                           !.s.units[cmd.actor].y = cmd.y,
                           !.s.units[cmd.actor].actions_remaining = @ - 1]
    IN IF actor.actions_remaining <= 0 THEN Raise(w, "actor has no actions remaining")
       ELSE IF ~CanStepTo(w.s, actor, cmd.x, cmd.y) THEN Raise(w, "illegal move target")
       ELSE Return(AppendEvent(moved, "move",
                [actor |-> cmd.actor, from |-> <<actor.x, actor.y>>,
                 to |-> <<cmd.x, cmd.y>>,
                 actions_remaining |-> actor.actions_remaining - 1]))

\* the damage detail of a strike that rolled no damage (None)
NoStrikeDamage == [rolls |-> <<>>, flat_modifier |-> 0, multiplier |-> 0, total |-> 0]

StrikeSpent(w, cmd, check, damage_detail, target_hp, spent) ==
    Return(AppendEvent(spent, "strike",
        [actor |-> cmd.actor, target |-> cmd.target, degree |-> check.degree,
         roll |-> [die |-> check.die, modifier |-> check.modifier, total |-> check.total,
                   base_dc |-> w.s.units[cmd.target].ac,
                   cover_bonus |-> CoverAcBonusForUnits(w.s, w.s.units[cmd.actor],
                                                        w.s.units[cmd.target]),
                   dc |-> check.dc],
         cover_grade |-> CoverGradeForUnits(w.s, w.s.units[cmd.actor],
                                            w.s.units[cmd.target]),
         damage |-> damage_detail,
         total |-> damage_detail.total, target_hp |-> target_hp,
         actions_remaining |-> spent.s.units[cmd.actor].actions_remaining]))

StrikeDamaged(w, cmd, check, damage_detail, damaged, used) ==
    StrikeSpent(w, cmd, check, damage_detail, damaged.hp,
                SpendAction([w EXCEPT !.s.units[cmd.target] = damaged,
                                      !.k = @ + 1 + used],
                            cmd.actor))

StrikeMitigated(w, cmd, check, multiplier, dmg, damage_total) ==
    IF multiplier > 0
    THEN StrikeDamaged(w, cmd, check,
                       [rolls |-> dmg.rolls, flat_modifier |-> dmg.flat_modifier,
                        multiplier |-> multiplier, total |-> damage_total],
                       MarkUnconsciousIfDown(DamageUnit(w.s.units[cmd.target], damage_total)),
                       dmg.used)
    ELSE StrikeDamaged(w, cmd, check, NoStrikeDamage, w.s.units[cmd.target], 0)

StrikeRolled(w, cmd, check, multiplier, dmg) ==
    StrikeMitigated(w, cmd, check, multiplier, dmg,
                    MitigateFor(w.s.units[cmd.target], dmg.total,
                                w.s.units[cmd.actor].attack_damage_type).applied_total)

\* the multiplier of a strike's damage: 2 on a critical success, 1 on a success
StrikeMultiplier(degree) ==
    IF degree = "critical_success" THEN 2 ELSE IF degree = "success" THEN 1 ELSE 0

StrikeChecked(w, cmd, dice, check) ==
    StrikeRolled(w, cmd, check, StrikeMultiplier(check.degree),
                 RollDamage(dice, w.k + 2, w.s.units[cmd.actor].damage,
                            StrikeMultiplier(check.degree)))

Strike(w, cmd, dice) ==
    LET actor == w.s.units[cmd.actor]
        target == w.s.units[cmd.target]
    IN IF actor.actions_remaining <= 0 THEN Raise(w, "actor has no actions remaining")
       ELSE IF cmd.target \notin DOMAIN w.s.units THEN Raise(w, "unknown target")
       ELSE IF ~Alive(target) THEN Raise(w, "target is not alive")
       ELSE IF ~HasLineOfSight(w.s, actor, target) THEN Raise(w, "no line of sight")
       ELSE StrikeChecked(w, cmd, dice,
                          ResolveCheck(dice, w.k + 1, actor.attack_mod,
                                       target.ac + CoverAcBonusForUnits(w.s, actor, target)))

\* the turn_start event appended after process_timing(turn_start), not before
EndTurnStartingLate(w, cmd, dice) ==
    LET ended == AppendEvent(w, "end_turn",
                    [actor |-> cmd.actor,
                     actions_remaining |-> w.s.units[cmd.actor].actions_remaining])
        Started(advanced) ==
            AppendEvent(advanced, "turn_start",
                    [active_unit |-> ActiveUnitId(advanced.s),
                     round |-> advanced.s.round_number])
        Advanced(ticked) == [ticked EXCEPT !.s = AdvanceTurn(@)]
    IN Return(Started(ProcessTiming(Advanced(ProcessTiming(ended, "turn_end", dice)),
                                    "turn_start", dice)))

EndTurn(w, cmd, dice) ==
    LET ended == AppendEvent(w, "end_turn",
                    [actor |-> cmd.actor,
                     actions_remaining |-> w.s.units[cmd.actor].actions_remaining])
        Started(advanced) ==
            AppendEvent(advanced, "turn_start",
                    [active_unit |-> ActiveUnitId(advanced.s),
                     round |-> advanced.s.round_number])
        Advanced(ticked) == Started([ticked EXCEPT !.s = AdvanceTurn(@)])
    IN Return(ProcessTiming(Advanced(ProcessTiming(ended, "turn_end", dice)),
                            "turn_start", dice))

SaveDamage(w, cmd, dice) ==
    LET actor == w.s.units[cmd.actor]
        Spent(resolution, spent) ==
            Return(AppendEvent(spent, "save_damage",
                [actor |-> cmd.actor, target |-> cmd.target, save_type |-> cmd.save_type,
                 resolution |-> resolution,
                 actions_remaining |-> spent.s.units[cmd.actor].actions_remaining]))
        Saved(saved) == Spent(saved.resolution, SpendAction(saved.w, cmd.actor))
    IN IF actor.actions_remaining <= 0 THEN Raise(w, "actor has no actions remaining")
       ELSE IF cmd.target \notin DOMAIN w.s.units THEN Raise(w, "unknown target")
       ELSE IF ~Alive(w.s.units[cmd.target]) THEN Raise(w, "target is not alive")
       ELSE IF cmd.mode # "basic" THEN Raise(w, "unsupported save_damage mode")
       ELSE Saved(SaveDamageOn(w, cmd.target, cmd, dice))

\* _units_within_radius_feet: alive units in the area, in dict order;
\* excluded_id is the id that is skipped (the parameter include_actor_id)
UnitsWithinRadiusFeet(s, center_x, center_y, radius_feet, excluded_id) ==
    LET area == RadiusPoints(center_x, center_y, TilesFromFeet(radius_feet))
    IN FilterSeq(s.unit_keys,
                 {u \in DOMAIN s.units :
                     /\ Alive(s.units[u])
                     /\ u # excluded_id
                     /\ <<s.units[u].x, s.units[u].y>> \in area})

RECURSIVE AreaLoop(_, _, _, _)
AreaLoop(acc, targets, cmd, dice) ==
    IF targets = <<>> THEN acc
    ELSE LET Saved(saved) ==
                 [w |-> saved.w, resolutions |-> Append(acc.resolutions, saved.resolution)]
         IN AreaLoop(Saved(SaveDamageOn(acc.w, Head(targets), cmd, dice)),
                     Tail(targets), cmd, dice)

AreaSaveDamage(w, cmd, dice) ==
    LET actor == w.s.units[cmd.actor]
        excluded == IF cmd.include_actor THEN NULL ELSE cmd.actor
        in_radius == UnitsWithinRadiusFeet(w.s, cmd.x, cmd.y, cmd.radius_feet, excluded)
        Spent(targets, resolutions, spent) ==
            Return(AppendEvent(spent, "area_save_damage",
                [actor |-> cmd.actor, center |-> <<cmd.x, cmd.y>>, targets |-> targets,
                 resolutions |-> resolutions,
                 actions_remaining |-> spent.s.units[cmd.actor].actions_remaining]))
        Resolved(targets, resolved) ==
            Spent(targets, resolved.resolutions, SpendAction(resolved.w, cmd.actor))
        Targeted(targets) ==
            Resolved(targets, AreaLoop([w |-> w, resolutions |-> <<>>], targets, cmd, dice))
    IN IF actor.actions_remaining <= 0 THEN Raise(w, "actor has no actions remaining")
       ELSE IF cmd.mode # "basic" THEN Raise(w, "unsupported area_save_damage mode")
       ELSE Targeted(FilterSeq(in_radius,
                     {u \in DOMAIN w.s.units :
                        HasTileLineOfEffect(w.s, cmd.x, cmd.y, w.s.units[u].x, w.s.units[u].y)}))

\* a set_flag that costs the actor an action
SetFlagPaid(w, cmd) ==
    LET flagged == [w EXCEPT !.s.flags =
                      [f \in (DOMAIN @) \cup {cmd.flag} |->
                          IF f = cmd.flag THEN cmd.value ELSE @[f]]]
    IN Return(AppendEvent(SpendAction(flagged, cmd.actor), "set_flag",
                [actor |-> cmd.actor, flag |-> cmd.flag, value |-> cmd.value]))

SetFlag(w, cmd) ==
    LET flagged == [w EXCEPT !.s.flags =
                      [f \in (DOMAIN @) \cup {cmd.flag} |->
                          IF f = cmd.flag THEN cmd.value ELSE @[f]]]
    IN Return(AppendEvent(flagged, "set_flag",
                [actor |-> cmd.actor, flag |-> cmd.flag, value |-> cmd.value]))

\* _nearest_open_tile: tiles sorted by (distance, y, x), the first open one
TileBefore(p, q, x, y) ==
    LET dp == ManhattanDistance(p[1], p[2], x, y)
        dq == ManhattanDistance(q[1], q[2], x, y)
    IN \/ dp < dq
       \/ dp = dq /\ p[2] < q[2]
       \/ dp = dq /\ p[2] = q[2] /\ p[1] < q[1]

NearestOpenTile(s, x, y) ==
    LET open == {p \in (0..(s.battle_map.width - 1)) \X (0..(s.battle_map.height - 1)) :
                    /\ ~IsBlocked(s, p[1], p[2])
                    /\ ~IsOccupied(s, p[1], p[2])}
    IN IF open = {} THEN <<>>
       ELSE CHOOSE p \in open : \A q \in open \ {p} : TileBefore(p, q, x, y)

\* the UnitState built by spawn_unit
SpawnedUnit(raw, spawn_x, spawn_y) ==
    [unit_id |-> raw.id, team |-> raw.team, hp |-> raw.hp,
     max_hp |-> IF raw.max_hp # 0 THEN raw.max_hp ELSE raw.hp,
     x |-> spawn_x, y |-> spawn_y, initiative |-> raw.initiative,
     attack_mod |-> raw.attack_mod, ac |-> IF raw.ac # 0 THEN raw.ac ELSE 10,
     damage |-> IF raw.damage # NoFormula THEN raw.damage ELSE Formula(1, 1, 0),
     temp_hp |-> raw.temp_hp,
     temp_hp_source |-> IF raw.temp_hp > 0 THEN SourceKey("spawn", raw.id) ELSE NoSource,
     temp_hp_owner_effect_id |-> NoInt,
     attack_damage_type |-> StrOr(raw.attack_damage_type, "physical"),
     fortitude |-> raw.fortitude, reflex |-> raw.reflex, will |-> raw.will,
     actions_remaining |-> 3, reaction_available |-> TRUE,
     conditions |-> raw.conditions, condition_immunities |-> raw.condition_immunities,
     resistances |-> raw.resistances, weaknesses |-> raw.weaknesses,
     immunities |-> raw.immunities]

\* the turn index after the rebuild: turn_order.index(active_unit_id)
TurnIndexKeepingActiveUnchanged(turn_order, active_unit_id, old_index) == old_index

TurnIndexKeepingActive(turn_order, active_unit_id, old_index) ==
    IndexOf(turn_order, active_unit_id) - 1

SpawnUnit(w, cmd) ==
    LET raw == cmd.unit
        policy == StrOr(cmd.placement_policy, "exact")
        Spent(spawned, spent) ==
            Return(AppendEvent(spent, "spawn_unit",
                [actor |-> cmd.actor, unit_id |-> raw.id, team |-> spawned.team,
                 position |-> <<spawned.x, spawned.y>>, placement_policy |-> policy,
                 spend_action |-> cmd.spend_action,
                 actions_remaining |-> spent.s.units[cmd.actor].actions_remaining]))
        \* the unit is in the state and in the turn order before the action is spent
        Placed(spawned, placed) ==
            IF cmd.spend_action /\ w.s.units[cmd.actor].actions_remaining <= 0
            THEN Raise(placed, "actor has no actions remaining")
            ELSE Spent(spawned,
                       IF cmd.spend_action THEN SpendAction(placed, cmd.actor) ELSE placed)
        Ordered(spawned, units, turn_order) ==
            Placed(spawned,
                   [w EXCEPT
                      !.s.units = units,
                      !.s.unit_keys = Append(@, raw.id),
                      !.s.turn_order = turn_order,
                      !.s.turn_index = TurnIndexKeepingActive(turn_order, ActiveUnitId(w.s),
                                                              w.s.turn_index)])
        Registered(spawned, units) == Ordered(spawned, units, BuildTurnOrder(units))
        Built(spawned) ==
            Registered(spawned, [u \in (DOMAIN w.s.units) \cup {raw.id} |->
                                    IF u = raw.id THEN spawned ELSE w.s.units[u]])
        Positioned(placement) ==
       IF raw.id = "" THEN Raise(w, "spawn_unit requires unit.id")
       ELSE IF raw.id \in DOMAIN w.s.units THEN Raise(w, "cannot spawn duplicate unit id")
       ELSE IF ~raw.has_position THEN Raise(w, "spawn_unit unit.position must be [x, y]")
       ELSE IF policy = "nearest_open" /\ placement = <<>>
            THEN Raise(w, "spawn_unit found no open tile for nearest_open placement")
       ELSE IF policy = "exact" /\ ~InBounds(w.s, placement[1], placement[2])
            THEN Raise(w, "spawn position out of bounds")
       ELSE IF policy = "exact" /\ IsBlocked(w.s, placement[1], placement[2])
            THEN Raise(w, "spawn position blocked")
       ELSE IF policy = "exact" /\ IsOccupied(w.s, placement[1], placement[2])
            THEN Raise(w, "spawn position occupied")
       ELSE IF policy \notin {"exact", "nearest_open"}
            THEN Raise(w, "unsupported spawn placement policy")
       ELSE IF raw.hp <= 0 THEN Raise(w, "spawn_unit unit.hp must be > 0")
       ELSE IF raw.temp_hp < 0 THEN Raise(w, "spawn_unit unit.temp_hp must be >= 0")
       ELSE IF raw.team = "" THEN Raise(w, "spawn_unit unit.team is required")
       ELSE Built(SpawnedUnit(raw, placement[1], placement[2]))
    IN Positioned(IF policy = "nearest_open"
                  THEN NearestOpenTile(w.s, raw.position[1], raw.position[2])
                  ELSE raw.position)

\* _new_effect_id: the number n of f"eff_{n:04d}"
NewEffectId(s) == Len(s.effects) + 1

\* state.effects[effect_id] = effect: a dict keeps the position of a key it has
PutEffect(s, effect) ==
    LET idx == EffectIndex(s, effect.effect_id)
    IN IF idx = 0 THEN [s EXCEPT !.effects = Append(@, effect)]
       ELSE [s EXCEPT !.effects[idx] = effect]

ApplyEffect(w, cmd, dice) ==
    LET actor == w.s.units[cmd.actor]
        effect == [effect_id |-> NewEffectId(w.s), kind |-> cmd.effect_kind,
                   source_unit_id |-> cmd.actor, target_unit_id |-> cmd.target,
                   payload |-> cmd.payload, duration_rounds |-> cmd.duration_rounds,
                   tick_timing |-> cmd.tick_timing]
        stored == SpendAction([w EXCEPT !.s = PutEffect(@, effect)], cmd.actor)
        Applied(announced, applied) ==
            Return(EmitLifecycleEvents([announced EXCEPT !.s = applied.s, !.k = applied.k],
                                       applied.le))
        Announced(announced) ==
            Applied(announced,
                    OnApply([s |-> announced.s, le |-> <<>>, k |-> announced.k],
                            EffectIndex(announced.s, effect.effect_id), dice))
    IN IF actor.actions_remaining <= 0 THEN Raise(w, "actor has no actions remaining")
       ELSE IF cmd.target \notin DOMAIN w.s.units THEN Raise(w, "unknown target")
       ELSE IF ~Alive(w.s.units[cmd.target]) THEN Raise(w, "target is not alive")
       ELSE Announced(AppendEvent(stored, "apply_effect_command",
                        [actor |-> cmd.actor, target |-> cmd.target,
                         effect_id |-> effect.effect_id, kind |-> effect.kind,
                         duration_rounds |-> effect.duration_rounds,
                         tick_timing |-> effect.tick_timing,
                         actions_remaining |-> actor.actions_remaining - 1]))

\* the payload of an effect, with the values .get() falls back on
DefaultPayload ==
    [name |-> "", value |-> 1, clear_on_expire |-> TRUE, amount |-> 0,
     stack_mode |-> NULL, cross_source |-> NULL, source_key |-> NoSource,
     remove_on_expire |-> TRUE, formula |-> NoFormula, damage_type |-> "",
     recovery_check |-> TRUE, recovery_dc |-> 15, recovery_modifier |-> 0,
     applied_temp_hp |-> NoInt, temp_hp_source_key |-> NoSource, expire_now |-> FALSE,
     stages |-> <<>>, save |-> NoSave, current_stage |-> 0,
     applied_conditions |-> EmptyDict, persistent_conditions |-> {},
     stage_rounds_remaining |-> 0]

(***************************************************************************)
(* Modelled hazard sources: engine/io/effect_model_loader.py and the two   *)
(* hazard commands of the reducer                                          *)
(***************************************************************************)
\* one entry of a source's "effects" list, with the values .get() falls back on
ModelEffect(kind) ==
    [kind |-> kind, formula |-> NoFormula, damage_type |-> "", dc |-> 0,
     save_type |-> "", mode |-> "standard", condition |-> "", value |-> 0,
     shape |-> "within_radius", size_feet |-> 5, size_miles |-> NoInt,
     save |-> NoSave, stages |-> <<>>, maximum_duration |-> [amount |-> 0, unit |-> ""],
     persistent_conditions |-> {}, transform_type |-> "unknown",
     teleport_type |-> "unknown"]

\* the effect model file: its hazards' sources, in file order
HazardModel ==
    << [hazard_id |-> "mitigation-demo", source_type |-> "trigger_action",
        source_name |-> "Burn",
        effects |-> << [ModelEffect("damage") EXCEPT !.formula = Formula(0, 1, 1),
                                                     !.damage_type = "fire"] >>],
       [hazard_id |-> "burst-demo", source_type |-> "trigger_action",
        source_name |-> "Burst",
        effects |-> << [ModelEffect("area") EXCEPT !.shape = "burst", !.size_feet = 10],
                       [ModelEffect("save_check") EXCEPT !.dc = 10, !.save_type = "Reflex",
                                                         !.mode = "basic"],
                       [ModelEffect("damage") EXCEPT !.formula = Formula(0, 1, 2)],
                       [ModelEffect("apply_condition") EXCEPT !.condition = "slowed",
                                                              !.value = 1] >>],
       [hazard_id |-> "poisoned-dart-gallery", source_type |-> "trigger_action",
        source_name |-> "Continuous Barrage",
        effects |-> << [ModelEffect("affliction") EXCEPT
                           !.save = [dc |-> 10, save_type |-> "Fortitude"],
                           !.stages = << [stage |-> 1, damage |-> <<Formula(0, 1, 1)>>,
                                          conditions |-> <<>>,
                                          duration |-> [amount |-> 1, unit |-> "round"]] >>,
                           !.maximum_duration = [amount |-> 2, unit |-> "round"]] >>],
       [hazard_id |-> "condition-immunity-demo", source_type |-> "trigger_action",
        source_name |-> "Lingering Mist",
        effects |-> << [ModelEffect("apply_condition") EXCEPT !.condition = "slowed",
                                                              !.value = 1],
                       [ModelEffect("apply_condition") EXCEPT !.condition = "prone",
                                                              !.value = 1] >>],
       [hazard_id |-> "doom-demo", source_type |-> "trigger_action",
        source_name |-> "Doom",
        effects |-> << [ModelEffect("save_check") EXCEPT !.dc = 10, !.save_type = "Will"],
                       ModelEffect("instant_death"),
                       [ModelEffect("apply_condition") EXCEPT !.condition = "frightened",
                                                              !.value = 2] >>] >>

\* lookup_hazard_source: the first source of the hazard with the type and name
FirstSource(model, hits) ==
    IF hits = {} THEN [found |-> FALSE, effects |-> <<>>]
    ELSE [found |-> TRUE,
          effects |-> model[CHOOSE i \in hits : \A j \in hits : i <= j].effects]

SourceAmong(model, hazard_id, source_name, source_type) ==
    FirstSource(model, {i \in 1..Len(model) : /\ model[i].hazard_id = hazard_id
                                              /\ model[i].source_type = source_type
                                              /\ model[i].source_name = source_name})

LookupHazardSource(hazard_id, source_name, source_type) ==
    SourceAmong(HazardModel, hazard_id, source_name, source_type)

\* next(e for e in effects if ...): the position of the first such effect, 0 for None
FirstEffect(effects, wanted) ==
    LET hits == {i \in 1..Len(effects) : effects[i] \in wanted}
    IN IF hits = {} THEN 0 ELSE CHOOSE i \in hits : \A j \in hits : i <= j

OfKind(effects, kinds) == {effects[i] : i \in {j \in 1..Len(effects) : effects[j].kind \in kinds}}

\* _nearest_enemy_unit_id: sorted by (manhattan distance, unit_id); NULL for None
NearestEnemyUnitId(s, actor_id) ==
    LET actor == s.units[actor_id]
        enemies == {u \in DOMAIN s.units :
                       Alive(s.units[u]) /\ u # actor_id /\ s.units[u].team # actor.team}
        Distance(u) == Abs(s.units[u].x - actor.x) + Abs(s.units[u].y - actor.y)
        Before(u, v) ==
            Distance(u) < Distance(v) \/ (Distance(u) = Distance(v) /\ IdRank[u] < IdRank[v])
    IN IF enemies = {} THEN NULL
       ELSE CHOOSE u \in enemies : \A v \in enemies \ {u} : Before(u, v)

\* cone_points: the 90-degree cone; dot >= cos(45 deg) in integers, where a
\* point on the 45-degree edge falls below the float cos(radians(45.0))
ConePoints(origin_x, origin_y, facing_x, facing_y, length_tiles) ==
    LET length == Max(1, length_tiles)
        dir_x == facing_x - origin_x
        dir_y == facing_y - origin_y
        Dot(p) == (p[1] - origin_x) * dir_x + (p[2] - origin_y) * dir_y
        Sq(p) == (p[1] - origin_x) * (p[1] - origin_x) + (p[2] - origin_y) * (p[2] - origin_y)
    IN IF dir_x = 0 /\ dir_y = 0 THEN {<<origin_x, origin_y>>}
       ELSE {p \in ((origin_x - length)..(origin_x + length))
                      \X ((origin_y - length)..(origin_y + length)) :
                \/ Sq(p) = 0
                \/ /\ Sq(p) <= length * length
                   /\ Dot(p) > 0
                   /\ 2 * Dot(p) * Dot(p) > Sq(p) * (dir_x * dir_x + dir_y * dir_y)}

UnitsInConeFeet(s, actor_id, facing_x, facing_y, size_feet) ==
    LET actor == s.units[actor_id]
        area == ConePoints(actor.x, actor.y, facing_x, facing_y, TilesFromFeet(size_feet))
    IN FilterSeq(s.unit_keys,
                 {u \in DOMAIN s.units :
                     /\ Alive(s.units[u])
                     /\ u # actor_id
                     /\ <<s.units[u].x, s.units[u].y>> \in area})

\* _choose_model_targets; center_x = NoInt stands for no center
ChooseModelTargets(s, actor_id, effects, explicit_target_id, center_x, center_y) ==
    LET actor == s.units[actor_id]
        area_idx == FirstEffect(effects, OfKind(effects, {"area"}))
        Others == {u \in DOMAIN s.units : Alive(s.units[u]) /\ u # actor_id}
        SeenFrom(x, y) ==
            {u \in DOMAIN s.units :
                HasTileLineOfEffect(s, x, y, s.units[u].x, s.units[u].y)}
        Line(points) ==
            {points[i] : i \in {j \in 2..Len(points) :
                                   \A h \in 2..j : ~IsBlocked(s, points[h][1], points[h][2])}}
        OnLine(pts_set) ==
            FilterSeq(s.unit_keys,
                      {u \in Others : <<s.units[u].x, s.units[u].y>> \in pts_set})
        InArea(area) ==
            IF area.size_miles # NoInt THEN FilterSeq(s.unit_keys, Others)
            ELSE IF area.shape = "line"
            THEN OnLine(Line(LinePoints(actor.x, actor.y, center_x, center_y)))
            ELSE IF area.shape = "cone"
            THEN FilterSeq(UnitsInConeFeet(s, actor_id, center_x, center_y, area.size_feet),
                           SeenFrom(actor.x, actor.y))
            ELSE FilterSeq(UnitsWithinRadiusFeet(s, center_x, center_y, area.size_feet,
                                                 actor_id),
                           SeenFrom(center_x, center_y))
    IN IF explicit_target_id # NULL /\ explicit_target_id # ""
       THEN (IF explicit_target_id \notin DOMAIN s.units THEN <<>>
             ELSE IF ~Alive(s.units[explicit_target_id]) THEN <<>>
             ELSE IF ~HasTileLineOfEffect(s, actor.x, actor.y, s.units[explicit_target_id].x,
                                          s.units[explicit_target_id].y) THEN <<>>
             ELSE <<explicit_target_id>>)
       ELSE IF area_idx # 0 /\ center_x # NoInt /\ center_y # NoInt
       THEN InArea(effects[area_idx])
       ELSE FilterSeq(s.unit_keys, Others \cap SeenFrom(actor.x, actor.y))

\* the save detail of a source without a save
NoModelSave ==
    [dc |-> 0, save_type |-> "", mode |-> "", die |-> 0, modifier |-> 0, total |-> 0,
     degree |-> NULL]

\* _apply_modeled_effects_to_target, the loop over condition_events:
\* acc = [unit, applied, skipped]
RECURSIVE ModeledConditions(_, _)
ModeledConditions(acc, conds) ==
    IF conds = <<>> THEN acc
    ELSE LET cond == Head(conds)
             value == IF cond.value = 0 THEN 1 ELSE cond.value
             entry == [name |-> cond.condition, value |-> value]
         IN ModeledConditions(
               IF cond.condition = "" THEN acc
               ELSE IF ConditionIsImmune(cond.condition, acc.unit.condition_immunities)
               THEN [acc EXCEPT !.skipped = Append(@, entry)]
               ELSE [acc EXCEPT !.unit.conditions = ApplyCondition(@, cond.condition, value),
                                !.applied = Append(@, entry)],
               Tail(conds))

RECURSIVE ModeledFlags(_)
ModeledFlags(evts) ==
    IF evts = <<>> THEN <<>>
    ELSE <<(IF Head(evts).kind = "transform"
            THEN "transform:" \o Head(evts).transform_type
            ELSE IF Head(evts).kind = "teleport"
            THEN "teleport:" \o Head(evts).teleport_type
            ELSE Head(evts).kind)>> \o ModeledFlags(Tail(evts))

\* _apply_modeled_effects_to_target works on c = [w, actor_id, target_id,
\* effects, source_label, dice]; the entry of one target in the results list
ModeledResult(c, save, damage, applied, skipped, flags, affliction, hp) ==
    [actor |-> c.actor_id, target |-> c.target_id, save |-> save, damage |-> damage,
     applied_conditions |-> applied, skipped_conditions |-> skipped,
     special_flags |-> flags, affliction |-> affliction, target_hp |-> hp]

ModeledTarget(c) == c.w.s.units[c.target_id]

ModeledKinds(c, kinds) == FilterSeq(c.effects, OfKind(c.effects, kinds))

\* the affliction branch: the effect it registers
AfflictionEffect(c, aff, dc, save_type, initial_stage) ==
    [effect_id |-> NewEffectId(c.w.s), kind |-> "affliction",
     source_unit_id |-> c.actor_id, target_unit_id |-> c.target_id,
     payload |-> [DefaultPayload EXCEPT
                     !.name = c.source_label,
                     !.save = IF dc > 0 THEN [dc |-> dc, save_type |-> save_type]
                              ELSE aff.save,
                     !.stages = aff.stages,
                     !.current_stage = initial_stage,
                     !.persistent_conditions = aff.persistent_conditions],
     duration_rounds |-> DurationToRounds(aff.maximum_duration, NoInt),
     tick_timing |-> "turn_end"]

AfflictionContracted(c, save, effect, applied) ==
    [w |-> [c.w EXCEPT !.s = applied.s, !.k = applied.k],
     result |-> ModeledResult(c, save, NULL, <<>>, <<>>, <<>>,
                              [contracted |-> TRUE, effect_id |-> effect.effect_id,
                               initial_stage |-> effect.payload.current_stage,
                               maximum_duration_rounds |-> effect.duration_rounds],
                              applied.s.units[c.target_id].hp),
     le |-> applied.le]

AfflictionStored(c, save, k, effect, stored) ==
    AfflictionContracted(c, save, effect,
                         OnApply([s |-> stored, le |-> <<>>, k |-> k],
                                 EffectIndex(stored, effect.effect_id), c.dice))

ContractAffliction(c, save, k, effect) ==
    AfflictionStored(c, save, k, effect, PutEffect(c.w.s, effect))

AfflictionSaved(c, save, save_degree, k, aff, dc, save_type) ==
    IF save_degree \in {"failure", "critical_failure"}
    THEN ContractAffliction(c, save, k,
            AfflictionEffect(c, aff, dc, save_type,
                IF save_degree = "critical_failure"
                THEN Min(2, IF aff.stages = <<>> THEN 1
                            ELSE CHOOSE m \in {aff.stages[i].stage :
                                                  i \in 1..Len(aff.stages)} :
                                   \A i \in 1..Len(aff.stages) : aff.stages[i].stage <= m)
                ELSE 1))
    ELSE [w |-> [c.w EXCEPT !.k = k],
          result |-> ModeledResult(c, save, NULL, <<>>, <<>>, <<>>,
                                   [contracted |-> FALSE, effect_id |-> NoInt,
                                    initial_stage |-> NoInt,
                                    maximum_duration_rounds |-> NoInt],
                                   ModeledTarget(c).hp),
          le |-> <<>>]

\* with a dc the save is rolled; without one the affliction is contracted
AfflictionRolled(c, aff, dc, save_type, save) ==
    AfflictionSaved(c,
                    IF dc > 0
                    THEN save @@ [save_type |-> save_type, mode |-> "affliction"]
                    ELSE NoModelSave,
                    IF dc > 0 THEN save.degree ELSE "failure",
                    IF dc > 0 THEN c.w.k + 1 ELSE c.w.k,
                    aff, dc, save_type)

AfflictionDc(c, aff, dc, save_type) ==
    AfflictionRolled(c, aff, dc, save_type,
                     IF dc > 0
                     THEN ResolveSave(c.dice, c.w.k + 1, save_type, ModeledTarget(c), dc)
                     ELSE NoModelSave)

ModeledAffliction(c, aff, save_idx) ==
    AfflictionDc(c, aff,
                 IF aff.save.dc # 0 THEN aff.save.dc
                 ELSE IF save_idx # 0 THEN c.effects[save_idx].dc ELSE 0,
                 IF aff.save.save_type # "" THEN aff.save.save_type
                 ELSE IF save_idx # 0 THEN c.effects[save_idx].save_type
                 ELSE "Fortitude")

\* the save, damage, condition and lethality branch
ModeledFinished(c, save, damage, k, secondary, conditioned) ==
    LET lethal == ModeledKinds(c, {"instant_death", "special_lethality"})
        dead == lethal # <<>> /\ secondary
        killed == IF dead
                  THEN [conditioned.unit EXCEPT
                           !.hp = 0,
                           !.conditions = ApplyCondition(@, "unconscious", 1)]
                  ELSE conditioned.unit
        final == MarkUnconsciousIfDown(killed)
    IN [w |-> [c.w EXCEPT !.s.units[c.target_id] = final, !.k = k],
        result |-> ModeledResult(c, save, damage, conditioned.applied, conditioned.skipped,
                                 (IF dead THEN ModeledFlags(lethal) ELSE <<>>)
                                    \o ModeledFlags(ModeledKinds(c, {"transform"}))
                                    \o ModeledFlags(ModeledKinds(c, {"teleport"})),
                                 NULL, final.hp),
        le |-> <<>>]

\* if should_apply_secondary, as if True
ModeledConditionedWhateverTheSave(c, save, damage, k, secondary, damaged) ==
    ModeledFinished(c, save, damage, k, secondary,
                    ModeledConditions([unit |-> damaged, applied |-> <<>>,
                                       skipped |-> <<>>],
                                      ModeledKinds(c, {"apply_condition"})))

ModeledConditioned(c, save, damage, k, secondary, damaged) ==
    ModeledFinished(c, save, damage, k, secondary,
                    IF secondary
                    THEN ModeledConditions([unit |-> damaged, applied |-> <<>>,
                                            skipped |-> <<>>],
                                           ModeledKinds(c, {"apply_condition"}))
                    ELSE [unit |-> damaged, applied |-> <<>>, skipped |-> <<>>])

ModeledMitigated(c, save, k, secondary, rolls, base_roll, mult2, adjustment) ==
    ModeledConditioned(c, save,
                       IF ~rolls THEN NULL
                       ELSE [rolled_total |-> base_roll.total, multiplier2 |-> mult2,
                             raw_total |-> adjustment.raw_total,
                             applied_total |-> adjustment.applied_total],
                       IF ~rolls THEN k ELSE k + base_roll.used, secondary,
                       IF ~rolls THEN ModeledTarget(c)
                       ELSE DamageUnit(ModeledTarget(c), adjustment.applied_total))

ModeledRolled(c, save, k, secondary, rolls, damage_event, base_roll, mult2) ==
    ModeledMitigated(c, save, k, secondary, rolls, base_roll, mult2,
                     IF ~rolls THEN EmptyDict
                     ELSE MitigateFor(ModeledTarget(c),
                                      ScaleByHalves(base_roll.total, mult2),
                                      IF damage_event.damage_type = "" THEN NULL
                                      ELSE damage_event.damage_type))

\* damage_idx = 0: the source has no damage effect with a formula
ModeledDamage(c, save, k, secondary, mult2, damage_idx) ==
    ModeledRolled(c, save, k, secondary, damage_idx # 0,
                  IF damage_idx = 0 THEN EmptyDict ELSE c.effects[damage_idx],
                  IF damage_idx = 0 THEN EmptyDict
                  ELSE RollDamage(c.dice, k + 1, c.effects[damage_idx].formula, 1),
                  mult2)

\* save_idx = 0: the source has no save_check effect
ModeledSaved(c, save_idx, save_event, save, damage_idx) ==
    ModeledDamage(c,
                  IF save_idx = 0 THEN NoModelSave
                  ELSE save @@ [save_type |-> save_event.save_type,
                                mode |-> save_event.mode],
                  IF save_idx = 0 THEN c.w.k ELSE c.w.k + 1,
                  IF save_idx = 0 THEN TRUE
                  ELSE save.degree \in {"failure", "critical_failure"},
                  IF save_idx = 0 THEN 2
                  ELSE IF save_event.mode = "basic" THEN BasicSaveMultiplier2(save.degree)
                  ELSE IF save_event.mode = "negates"
                  THEN (IF save.degree \in {"success", "critical_success"} THEN 0 ELSE 2)
                  ELSE 2,
                  damage_idx)

ModeledBranches(c, save_idx, damage_idx, affliction_idx) ==
    IF affliction_idx # 0 THEN ModeledAffliction(c, c.effects[affliction_idx], save_idx)
    ELSE ModeledSaved(c, save_idx,
                      IF save_idx = 0 THEN EmptyDict ELSE c.effects[save_idx],
                      IF save_idx = 0 THEN EmptyDict
                      ELSE ResolveSave(c.dice, c.w.k + 1, c.effects[save_idx].save_type,
                                       ModeledTarget(c), c.effects[save_idx].dc),
                      damage_idx)

\* _apply_modeled_effects_to_target: [w, result, le], le the lifecycle events
ApplyModeledEffectsToTarget(w, actor_id, target_id, effects, source_label, dice) ==
    ModeledBranches([w |-> w, actor_id |-> actor_id, target_id |-> target_id,
                     effects |-> effects, source_label |-> source_label, dice |-> dice],
                    FirstEffect(effects, OfKind(effects, {"save_check"})),
                    FirstEffect(effects,
                                {e \in OfKind(effects, {"damage"}) : e.formula # NoFormula}),
                    FirstEffect(effects, OfKind(effects, {"affliction"})))

\* the loop over target_ids of both hazard commands: acc = [w, results, le]
RECURSIVE ModeledLoop(_, _, _, _, _, _)
ModeledLoop(acc, targets, actor_id, effects, source_label, dice) ==
    IF targets = <<>> THEN acc
    ELSE LET Applied(applied) ==
                 [w |-> applied.w, results |-> Append(acc.results, applied.result),
                  le |-> acc.le \o applied.le]
         IN ModeledLoop(
               IF Head(targets) \notin DOMAIN acc.w.s.units
                  \/ ~Alive(acc.w.s.units[Head(targets)])
               THEN acc
               ELSE Applied(ApplyModeledEffectsToTarget(acc.w, actor_id, Head(targets),
                                                        effects, source_label, dice)),
               Tail(targets), actor_id, effects, source_label, dice)

\* command.get("source_type") or "trigger_action"
SourceType(cmd) == IF cmd.source_type \in {NULL, ""} THEN "trigger_action" ELSE cmd.source_type

\* command.get("target_policy") or "nearest_enemy"
TargetPolicy(cmd) ==
    IF cmd.target_policy \in {NULL, ""} THEN "nearest_enemy" ELSE cmd.target_policy

\* what both hazard commands do once the source and the targets are known
ModeledCommand(w, cmd, event_type, policy, effects, explicit_target, center_x, center_y, target_ids, dice) ==
    LET Spent(looped, spent) ==
            Return(EmitLifecycleEvents(
                AppendEvent(spent, event_type,
                    policy @@
                    [actor |-> cmd.actor, hazard_id |-> cmd.hazard_id,
                     source_type |-> SourceType(cmd), source_name |-> cmd.source_name,
                     center |-> IF center_x # NoInt /\ center_y # NoInt
                                THEN <<center_x, center_y>> ELSE <<>>,
                     explicit_target |-> explicit_target, target_ids |-> target_ids,
                     effect_kinds |-> {effects[i].kind : i \in 1..Len(effects)},
                     results |-> looped.results,
                     actions_remaining |-> spent.s.units[cmd.actor].actions_remaining]),
                looped.le))
        Looped(looped) == Spent(looped, SpendAction(looped.w, cmd.actor))
    IN Looped(ModeledLoop([w |-> w, results |-> <<>>, le |-> <<>>], target_ids,
                          cmd.actor, effects,
                          cmd.hazard_id \o ":" \o cmd.source_name, dice))

TargetPolicies ==
    {"nearest_enemy", "nearest_enemy_area_center", "explicit", "all_enemies",
     "as_configured"}

\* run_hazard_routine once the targets are chosen
RoutineChosen(w, cmd, dice, actor, policy, source, aim, target_ids) ==
    ModeledCommand(w, cmd, "run_hazard_routine", [target_policy |-> policy],
                   source.effects, aim.explicit_target, aim.center_x, aim.center_y,
                   IF policy = "all_enemies"
                   THEN FilterSeq(target_ids,
                                  {u \in DOMAIN w.s.units : w.s.units[u].team # actor.team})
                   ELSE target_ids, dice)

\* the explicit target and the center the target policy gives
RoutineAim(w, cmd, policy, nearest_id, centred) ==
    [explicit_target |->
         CASE policy = "nearest_enemy" -> nearest_id
           [] policy \in {"nearest_enemy_area_center", "all_enemies"} -> NULL
           [] OTHER -> cmd.target,
     center_x |-> IF centred THEN w.s.units[nearest_id].x ELSE cmd.center_x,
     center_y |-> IF centred THEN w.s.units[nearest_id].y ELSE cmd.center_y]

RoutineAimed(w, cmd, dice, actor, policy, source, aim) ==
    RoutineChosen(w, cmd, dice, actor, policy, source, aim,
                  ChooseModelTargets(w.s, cmd.actor, source.effects, aim.explicit_target,
                                     aim.center_x, aim.center_y))

RoutineSought(w, cmd, dice, actor, policy, source, nearest_id) ==
    RoutineAimed(w, cmd, dice, actor, policy, source,
                 RoutineAim(w, cmd, policy, nearest_id,
                            policy = "nearest_enemy_area_center" /\ nearest_id # NULL))

RoutineLooked(w, cmd, dice, actor, policy, source) ==
    IF actor.actions_remaining <= 0 THEN Raise(w, "actor has no actions remaining")
    ELSE IF policy \notin TargetPolicies THEN Raise(w, "unsupported target policy")
    ELSE IF ~source.found THEN Raise(w, "hazard source not found")
    ELSE RoutineSought(w, cmd, dice, actor, policy, source,
                       NearestEnemyUnitId(w.s, cmd.actor))

RunHazardRoutine(w, cmd, dice) ==
    RoutineLooked(w, cmd, dice, w.s.units[cmd.actor], TargetPolicy(cmd),
                  LookupHazardSource(cmd.hazard_id, cmd.source_name, SourceType(cmd)))

\* trigger_hazard_source once the targets are chosen
TriggerChosen(w, cmd, dice, source, target_ids) ==
    ModeledCommand(w, cmd, "trigger_hazard_source", EmptyDict, source.effects,
                   cmd.target, cmd.center_x, cmd.center_y, target_ids, dice)

TriggerLooked(w, cmd, dice, actor, source) ==
    IF actor.actions_remaining <= 0 THEN Raise(w, "actor has no actions remaining")
    ELSE IF ~source.found THEN Raise(w, "hazard source not found")
    ELSE TriggerChosen(w, cmd, dice, source,
                       ChooseModelTargets(w.s, cmd.actor, source.effects, cmd.target,
                                          cmd.center_x, cmd.center_y))

TriggerHazardSource(w, cmd, dice) ==
    TriggerLooked(w, cmd, dice, w.s.units[cmd.actor],
                  LookupHazardSource(cmd.hazard_id, cmd.source_name, SourceType(cmd)))

\* a reducer that lets any unit act
ActorHasTurnUnchecked(s, actor_id) == TRUE

\* _assert_actor_turn passes
ActorHasTurn(s, actor_id) == ActiveUnitId(s) = actor_id

\* apply_command(state, command, rng): the reduction of one command on a copy
\* of the state, with the RNG stream `dice` positioned at its first word
ApplyCommand(s, cmd, dice) ==
    LET w == [s |-> s, ev |-> <<>>, k |-> 0] IN
    IF ~ActorHasTurn(s, cmd.actor) THEN Raise(w, "actor is not active unit")
    ELSE IF ~Alive(s.units[cmd.actor]) THEN Raise(w, "actor is not alive")
    ELSE CASE cmd.type = "move" -> Move(w, cmd)
           [] cmd.type = "strike" -> Strike(w, cmd, dice)
           [] cmd.type = "end_turn" -> EndTurn(w, cmd, dice)
           [] cmd.type = "save_damage" -> SaveDamage(w, cmd, dice)
           [] cmd.type = "area_save_damage" -> AreaSaveDamage(w, cmd, dice)
           [] cmd.type = "set_flag" -> SetFlag(w, cmd)
           [] cmd.type = "spawn_unit" -> SpawnUnit(w, cmd)
           [] cmd.type = "apply_effect" -> ApplyEffect(w, cmd, dice)
           [] cmd.type = "run_hazard_routine" -> RunHazardRoutine(w, cmd, dice)
           [] cmd.type = "trigger_hazard_source" -> TriggerHazardSource(w, cmd, dice)
           [] OTHER -> Raise(w, "unsupported command type")

\* what the caller holds after the call: the returned state, or, when the call
\* raised, the state it passed in (the reduction worked on a deepcopy)
CallerStateAliased(s, r) == r.w.s

CallerState(s, r) == IF r.ok THEN r.w.s ELSE s

ReturnedEvents(r) == IF r.ok THEN r.w.ev ELSE <<>>

(***************************************************************************)
(* The commands a caller feeds to the reducer                              *)
(***************************************************************************)
BaseCommand(type, actor) ==
    [type |-> type, actor |-> actor, target |-> NULL, x |-> 0, y |-> 0,
     flag |-> "", value |-> TRUE, unit |-> RawUnit("", "", 0, <<0, 0>>, 0),
     placement_policy |-> NULL, spend_action |-> FALSE, effect_kind |-> "",
     payload |-> DefaultPayload, duration_rounds |-> NoInt, tick_timing |-> NULL,
     dc |-> 10, save_type |-> "Reflex", damage |-> Formula(0, 1, 2),
     damage_type |-> "fire", mode |-> "basic", include_actor |-> FALSE,
     radius_feet |-> 5, action_cost |-> 1, hazard_id |-> "", source_name |-> "",
     source_type |-> NULL, target_policy |-> NULL, center_x |-> NoInt,
     center_y |-> NoInt]

Tiles == (0..(BattleMap.width - 1)) \X (0..(BattleMap.height - 1))

TargetIds == {"b", "c", "e", "z"}

SpawnRaws ==
    LET d == RawUnit("d", "enemy", 1, <<1, 0>>, 0) IN
    { [d EXCEPT !.initiative = 5],
      [d EXCEPT !.initiative = 3],
      [d EXCEPT !.initiative = 2, !.temp_hp = 1, !.position = <<1, 1>>],
      [d EXCEPT !.position = <<0, 1>>, !.hp = 2, !.max_hp = 1],
      [d EXCEPT !.position = <<0, 1>>, !.hp = 0],
      [d EXCEPT !.position = <<0, 1>>, !.team = ""],
      [d EXCEPT !.position = <<0, 1>>, !.id = "b"],
      [d EXCEPT !.position = <<0, 1>>, !.temp_hp = -1],
      [d EXCEPT !.position = <<3, 0>>],
      [d EXCEPT !.has_position = FALSE] }

SpawnCommands(actor) ==
    { [BaseCommand("spawn_unit", actor) EXCEPT !.unit = raw, !.placement_policy = pol]
        : raw \in SpawnRaws, pol \in {NULL, "nearest_open"} }
    \cup { [BaseCommand("spawn_unit", actor) EXCEPT !.unit = raw,
                                                   !.placement_policy = "nearest_open",
                                                   !.spend_action = TRUE]
            : raw \in SpawnRaws }
    \cup { [BaseCommand("spawn_unit", actor) EXCEPT
                !.unit = RawUnit("d", "enemy", 1, <<0, 1>>, 0),
                !.placement_policy = "adjacent"] }

EffectCommands(actor) ==
    LET base == [BaseCommand("apply_effect", actor) EXCEPT !.duration_rounds = 1] IN
    { [base EXCEPT !.effect_kind = "condition", !.payload.name = "prone", !.target = t]
        : t \in TargetIds }
    \cup { [base EXCEPT !.effect_kind = "temp_hp", !.payload.amount = 2, !.target = t]
        : t \in TargetIds }
    \cup { [base EXCEPT !.effect_kind = "persistent_damage", !.duration_rounds = NoInt,
                        !.payload.formula = Formula(0, 1, 2), !.tick_timing = timing,
                        !.target = t]
        : t \in TargetIds, timing \in {"turn_start", "turn_end"} }

MoveCommands(actor) ==
    { [BaseCommand("move", actor) EXCEPT !.x = p[1], !.y = p[2]] : p \in Tiles }

\* commands whose reduction draws from the RNG stream
RollingCommands(actor) ==
    { [BaseCommand("strike", actor) EXCEPT !.target = t] : t \in TargetIds }
    \cup { BaseCommand("end_turn", actor) }
    \cup { [BaseCommand("save_damage", actor) EXCEPT !.target = t] : t \in TargetIds }
    \cup { [BaseCommand("save_damage", actor) EXCEPT !.target = "b", !.mode = "negates"] }
    \cup { [BaseCommand("area_save_damage", actor) EXCEPT !.x = 1, !.include_actor = i]
            : i \in BOOLEAN }
    \cup { [BaseCommand("area_save_damage", actor) EXCEPT !.x = 1, !.mode = "negates"] }

\* commands whose reduction never reads the RNG stream
StaticCommands(actor) ==
    MoveCommands(actor)
    \cup { [BaseCommand("set_flag", actor) EXCEPT !.flag = "alarm", !.value = v]
            : v \in BOOLEAN }
    \cup SpawnCommands(actor)
    \cup EffectCommands(actor)
    \cup { BaseCommand("cast_spell", actor) }

\* one command of each type, issued for a unit whose turn it is not
OutOfTurnCommands(actor) ==
    { BaseCommand(type, actor) :
        type \in {"move", "strike", "end_turn", "save_damage", "area_save_damage",
                  "set_flag", "spawn_unit", "apply_effect", "cast_spell"} }

Commands(s) ==
    StaticCommands(ActiveUnitId(s))
    \cup RollingCommands(ActiveUnitId(s))
    \cup UNION { OutOfTurnCommands(actor) : actor \in (DOMAIN s.units) \ {ActiveUnitId(s)} }

\* the number of words of the stream that can change what a command does:
\* one d20 per strike, per save and per recovery check of a ticking effect
\* (the damage of the battle under check is flat, or rolled on one-sided dice)
DecidingWords(s, cmd) ==
    CASE cmd.type = "strike" -> 1
      [] cmd.type = "save_damage" /\ cmd.mode = "basic" -> 1
      [] cmd.type = "area_save_damage" /\ cmd.mode = "basic" ->
           Cardinality(AliveIds(s) \ (IF cmd.include_actor THEN {} ELSE {cmd.actor}))
      [] cmd.type = "end_turn" -> Len(s.effects)
      [] cmd.type \in {"run_hazard_routine", "trigger_hazard_source"} ->
           Cardinality(AliveIds(s) \ {cmd.actor})
      [] OTHER -> 0

\* the streams worth telling apart for a command
DiceFor(s, cmd) ==
    {dice \in DiceStreams : \A i \in 1..DiceLen : i > DecidingWords(s, cmd) => dice[i] = 0}

OpeningCommands(s) == MoveCommands(ActiveUnitId(s))

(***************************************************************************)
(* Specification Spec: a caller holding a loaded battle state and feeding  *)
(* commands to apply_command, each with some position of the RNG stream.   *)
(***************************************************************************)
NoCall == [type |-> "", actor |-> "", ok |-> TRUE, err |-> "", active_before |-> "",
           spawned |-> "", spawn_initiative |-> 0]

Outcome(s, cmd, r) ==
    [type |-> cmd.type, actor |-> cmd.actor, ok |-> r.ok, err |-> r.err,
     active_before |-> ActiveUnitId(s),
     spawned |-> IF cmd.type = "spawn_unit" THEN cmd.unit.id ELSE "",
     spawn_initiative |-> IF cmd.type = "spawn_unit" THEN cmd.unit.initiative ELSE 0]

\* the parts of the state a specification does not use stay as they start
IdleReducer ==
    /\ st = BattleStateFromScenario(ScenarioUnits)
    /\ last = NoCall
    /\ events = <<>>
    /\ steps = 0
    /\ warm = 0

IdleKernel == kin = <<>> /\ kout = [done |-> FALSE]

IdleDriver == drv = <<>>

Init == IdleReducer /\ IdleKernel /\ IdleDriver

Call(cmd, r) ==
    /\ st' = CallerState(st, r)
    /\ events' = ReturnedEvents(r)
    /\ last' = Outcome(st, cmd, r)

\* an opening move, replayed from a recording: it succeeds
Opening ==
    /\ steps = 0
    /\ last.ok
    /\ warm < MaxWarm
    /\ \E cmd \in OpeningCommands(st) : \E dice \in DiceFor(st, cmd) :
          \E r \in {ApplyCommand(st, cmd, dice)} :
             /\ r.ok
             /\ Call(cmd, r)
    /\ warm' = warm + 1
    /\ UNCHANGED <<steps, kin, kout, drv>>

\* any command, by any unit, succeeding or not; the caller stops at a failure
Dispatch ==
    /\ last.ok
    /\ steps < MaxSteps
    /\ \E cmd \in Commands(st) : \E dice \in DiceFor(st, cmd) :
          \E r \in {ApplyCommand(st, cmd, dice)} :
             /\ Call(cmd, r)
             /\ steps' = IF r.ok THEN steps + 1 ELSE steps
    /\ UNCHANGED <<warm, kin, kout, drv>>

Next == Opening \/ Dispatch

Spec == Init /\ [][Next]_vars

(***************************************************************************)
(* Properties of the reducer, under Spec                                   *)
(***************************************************************************)
\* C2: in every reachable state every unit has 0 <= hp <= max_hp and
\* temp_hp >= 0, and a unit with temp_hp = 0 has no temp_hp_source and no
\* temp_hp_owner_effect_id
C2_PoolsWithinBounds ==
    \A u \in DOMAIN st.units :
        LET unit == st.units[u] IN
        /\ 0 <= unit.hp
        /\ unit.hp <= unit.max_hp
        /\ unit.temp_hp >= 0
        /\ unit.temp_hp = 0 =>
              (unit.temp_hp_source = NoSource /\ unit.temp_hp_owner_effect_id = NoInt)

\* C3: a command of any type whose actor is not the active unit, or whose
\* actor is not alive, is rejected with a ReductionError
C3_RejectsOutOfTurnOrDeadActor ==
    [][ (\/ last'.actor # ActiveUnitId(st)
         \/ ~Alive(st.units[last'.actor]))
        => (/\ ~last'.ok
            /\ last'.err \in {"actor is not active unit", "actor is not alive"}) ]_vars

\* a unit whose turn it is has died, and its end_turn was rejected
C3_DeadActorEndTurnRejected ==
    /\ ~last.ok
    /\ last.type = "end_turn"
    /\ last.err = "actor is not alive"
    /\ last.actor = ActiveUnitId(st)

\* C4: when apply_command raises, the state the caller holds is the state it
\* passed in, and no events are returned
C4_FailureLeavesCallerStateUnchanged ==
    [][ ~last'.ok => (st' = st /\ events' = <<>>) ]_vars

\* spawn_unit with spend_action raised after the unit was placed on the copy
C4_SpawnFailedAfterPlacement ==
    /\ ~last.ok
    /\ last.type = "spawn_unit"
    /\ last.err = "actor has no actions remaining"
    /\ last.spawned \notin DOMAIN st.units

\* the first unit alive in s after position idx (0-based) of the turn order,
\* going round; defined when some unit is alive
RECURSIVE NextAliveIndex(_, _)
NextAliveIndex(s, idx) ==
    LET nxt == NextTurnIndex(idx, Len(s.turn_order))
    IN IF Alive(s.units[s.turn_order[nxt + 1]]) THEN nxt ELSE NextAliveIndex(s, nxt)

\* C6: after a successful end_turn, if some unit is alive, the active unit is
\* the next alive unit after the previous active unit in cyclic turn order,
\* and it has actions_remaining = 3 and reaction_available = true
C6_EndTurnArrivesAtNextAliveUnit ==
    [][ (last'.ok /\ last'.type = "end_turn" /\ AliveIds(st') # {})
        => (/\ st'.turn_index = NextAliveIndex(st', st.turn_index)
            /\ st'.units[ActiveUnitId(st')].actions_remaining = 3
            /\ st'.units[ActiveUnitId(st')].reaction_available) ]_vars

\* C10: a successful spawn_unit adds the unit, rebuilds the turn order over
\* all units and keeps the active unit, whatever the spawned unit's initiative
C10_SpawnKeepsActiveUnit ==
    [][ (last'.ok /\ last'.type = "spawn_unit")
        => (/\ last'.spawned \notin DOMAIN st.units
            /\ DOMAIN st'.units = (DOMAIN st.units) \cup {last'.spawned}
            /\ st'.turn_order = BuildTurnOrder(st'.units)
            /\ ActiveUnitId(st') = ActiveUnitId(st)) ]_vars

\* a unit was spawned into a slot of the turn order before the active unit's
C10_SpawnedBeforeActiveUnit ==
    /\ last.ok
    /\ last.type = "spawn_unit"
    /\ last.spawned \in DOMAIN st.units
    /\ IndexOf(st.turn_order, last.spawned) < st.turn_index + 1
    /\ ActiveUnitId(st) = last.active_before

(***************************************************************************)
(* Specification LifeSpec: a caller reduces one command after the other on *)
(* a duel of two units.  What the caller sends follows a plan drawn at the *)
(* start (kin.plan): each plan is a family of commands and a number of     *)
(* calls.  last holds the command of the latest call, how it ended and     *)
(* whether it repeats the command of the call before it.                   *)
(***************************************************************************)
DuelUnits ==
    << RawUnit("e", "pc", 3, <<0, 0>>, 2),
       [RawUnit("b", "enemy", 2, <<1, 0>>, 1) EXCEPT !.temp_hp = 1] >>

\* apply_effect commands that grant temporary hit points
TempHpCommands(actor) ==
    { [BaseCommand("apply_effect", actor) EXCEPT
          !.effect_kind = "temp_hp", !.target = target,
          !.payload.amount = amount, !.payload.stack_mode = stack_mode,
          !.payload.cross_source = cross_source, !.payload.source_key = source_key]
      : <<target, amount, stack_mode, cross_source, source_key>> \in
          {"e", "b"} \X {1, 2} \X {"add", "max"}
             \X {"ignore", "replace", "higher_only"}
             \X {NoSource, SourceKey("initial", "")} }

\* the richer set: cast_spell, use_feat, use_item (validated by the loader) and
\* interact (built by the driver's enemy policy)
VariantCommands(actor) ==
    { [BaseCommand("cast_spell", actor) EXCEPT !.target = "b", !.action_cost = 2],
      [BaseCommand("use_feat", actor) EXCEPT
          !.target = actor, !.effect_kind = "temp_hp", !.payload.amount = 1],
      [BaseCommand("use_item", actor) EXCEPT
          !.target = actor, !.effect_kind = "condition",
          !.payload.name = "frightened"],
      [BaseCommand("interact", actor) EXCEPT !.flag = "console_unlocked"] }

\* a condition with a duration, on either unit
ConditionCommands(actor) ==
    { [BaseCommand("apply_effect", actor) EXCEPT
          !.effect_kind = "condition", !.target = target, !.payload.name = name,
          !.duration_rounds = duration_rounds]
      : <<target, name, duration_rounds>> \in
          {<<"e", "prone", 1>>, <<"b", "frightened", 1>>, <<"b", "frightened", 2>>,
           <<"b", "prone", 2>>} }

\* temporary hit points for b that last, or that go after one round
PoolCommands(actor) ==
    { [BaseCommand("apply_effect", actor) EXCEPT
          !.effect_kind = "temp_hp", !.target = "b", !.payload.amount = amount,
          !.payload.remove_on_expire = remove_on_expire,
          !.duration_rounds = duration_rounds]
      : <<amount, duration_rounds, remove_on_expire>> \in
          {<<2, NoInt, TRUE>>, <<1, 1, TRUE>>, <<2, 1, TRUE>>, <<2, 1, FALSE>>} }
      \cup { [BaseCommand("apply_effect", actor) EXCEPT
                 !.effect_kind = "condition", !.target = actor,
                 !.payload.name = "prone", !.duration_rounds = 1],
             [BaseCommand("strike", actor) EXCEPT !.target = "b"] }

\* persistent damage of 1 on b, with a flat recovery check
BurnCommands(actor) ==
    { [BaseCommand("apply_effect", actor) EXCEPT
          !.effect_kind = "persistent_damage", !.target = "b",
          !.payload.formula = Formula(0, 1, 1), !.tick_timing = tick_timing,
          !.duration_rounds = duration_rounds, !.payload.recovery_dc = recovery_dc]
      : <<tick_timing, duration_rounds, recovery_dc>> \in
          {"turn_start", "turn_end"} \X {NoInt, 1} \X {10, 15} }

\* a two-stage affliction on b with a Fortitude save at each turn end of b;
\* the slow one stays two rounds at stage 1
AfflictionStage(stage, rounds) ==
    [stage |-> stage, damage |-> <<Formula(0, 1, 1)>>,
     conditions |-> <<[condition |-> "sickened", value |-> stage]>>,
     duration |-> [amount |-> rounds, unit |-> "round"]]

AfflictionCommands(actor) ==
    { [BaseCommand("apply_effect", actor) EXCEPT
          !.effect_kind = "affliction", !.target = "b", !.tick_timing = "turn_end",
          !.payload.stages = <<AfflictionStage(1, rounds), AfflictionStage(2, 1)>>,
          !.payload.save = [dc |-> dc, save_type |-> "Fortitude"],
          !.payload.current_stage = current_stage]
      : <<dc, current_stage, rounds>> \in
          {<<10, 0, 1>>, <<11, 0, 1>>, <<10, 2, 1>>, <<11, 2, 1>>, <<10, 0, 2>>} }

\* an affliction on b whose first stage lasts two or three rounds
DelayCommands(actor) ==
    { [BaseCommand("apply_effect", actor) EXCEPT
          !.effect_kind = "affliction", !.target = "b", !.tick_timing = "turn_end",
          !.payload.stages = <<AfflictionStage(1, rounds), AfflictionStage(2, 1)>>,
          !.payload.save = [dc |-> 10, save_type |-> "Fortitude"]]
      : rounds \in {2, 3} }

\* two units side by side in the middle row of a 3 x 3 map; the tiles above
\* and below the enemy are open, or one is blocked, or both
CoverUnits ==
    << [RawUnit("e", "pc", 3, <<0, 1>>, 2) EXCEPT !.attack_mod = 1],
       [RawUnit("b", "enemy", 2, <<1, 1>>, 1) EXCEPT !.temp_hp = 1] >>

CoverMaps ==
    { [width |-> 3, height |-> 3, blocked |-> blocked]
        : blocked \in {{}, {<<1, 0>>}, {<<1, 0>>, <<1, 2>>}} }

\* a strike at the other unit, from where the actor stands or after a step
CoverCommands(actor) ==
    { [BaseCommand("strike", actor) EXCEPT !.target = IF actor = "e" THEN "b" ELSE "e"],
      [BaseCommand("move", actor) EXCEPT !.x = 0, !.y = 0],
      BaseCommand("end_turn", actor) }

\* ways to bring b down: a strike, persistent damage of 3 at b's turn end, and
\* an unconscious condition on b that lasts one round
DownCommands(actor) ==
    { [BaseCommand("strike", actor) EXCEPT !.target = IF actor = "e" THEN "b" ELSE "e"],
      [BaseCommand("apply_effect", actor) EXCEPT
          !.effect_kind = "persistent_damage", !.target = "b",
          !.payload.formula = Formula(0, 1, 3), !.tick_timing = "turn_end"],
      [BaseCommand("apply_effect", actor) EXCEPT
          !.effect_kind = "condition", !.target = "b",
          !.payload.name = "unconscious", !.duration_rounds = 1],
      [BaseCommand("apply_effect", actor) EXCEPT
          !.effect_kind = "condition", !.target = "z",
          !.payload.name = "prone", !.duration_rounds = 1],
      BaseCommand("end_turn", actor) }

\* set_flag of two flags to either value
FlagCommands(actor) ==
    { [BaseCommand("set_flag", actor) EXCEPT !.flag = flag, !.value = value]
        : flag \in {"alarm", "gate_open"}, value \in BOOLEAN }

\* one command of every type, for the unit whose turn it is: the seven that
\* cost an action, set_flag, spawn_unit with and without spend_action, end_turn
EconomyCommands(actor) ==
    LET other == IF actor = "e" THEN "b" ELSE "e"
        hazard == BaseCommand("trigger_hazard_source", actor)
        routine == BaseCommand("run_hazard_routine", actor)
        spawn == [BaseCommand("spawn_unit", actor) EXCEPT
                     !.unit = RawUnit("d", "enemy", 1, <<2, 0>>, 0),
                     !.placement_policy = "nearest_open"]
    IN { [BaseCommand("move", actor) EXCEPT !.x = 0, !.y = 1],
         [BaseCommand("strike", actor) EXCEPT !.target = other],
         [BaseCommand("save_damage", actor) EXCEPT !.target = other],
         [BaseCommand("area_save_damage", actor) EXCEPT !.x = 1, !.y = 0],
         [BaseCommand("apply_effect", actor) EXCEPT
             !.effect_kind = "condition", !.target = other, !.payload.name = "prone",
             !.duration_rounds = 1],
         [hazard EXCEPT !.hazard_id = "mitigation-demo", !.source_name = "Burn"],
         [hazard EXCEPT !.hazard_id = "mitigation-demo", !.source_name = "Nope"],
         [routine EXCEPT !.hazard_id = "burst-demo", !.source_name = "Burst",
                         !.target_policy = "nearest_enemy_area_center"],
         [routine EXCEPT !.hazard_id = "poisoned-dart-gallery",
                         !.source_name = "Continuous Barrage"],
         [BaseCommand("set_flag", actor) EXCEPT !.flag = "alarm"],
         spawn,
         [spawn EXCEPT !.spend_action = TRUE],
         BaseCommand("end_turn", actor) }

\* the battle of three units over a round and more: units struck down or
\* burnt down at the start of their turn, ticking effects on both sides of a
\* turn change, a unit spawned to the front or to the back of the turn
\* order, a step and a flag
RoundCommands(actor) ==
    LET behind == IF actor = "e" THEN "b" ELSE IF actor = "b" THEN "c" ELSE "e"
        burn == [BaseCommand("apply_effect", actor) EXCEPT
                    !.effect_kind = "persistent_damage", !.payload.formula = Formula(0, 1, 2)]
    IN { BaseCommand("end_turn", actor),
         [BaseCommand("strike", actor) EXCEPT !.target = behind],
         [burn EXCEPT !.target = behind, !.tick_timing = "turn_start"],
         [burn EXCEPT !.target = actor, !.tick_timing = "turn_end", !.duration_rounds = 1,
                      !.payload.formula = Formula(0, 1, 1)],
         [BaseCommand("move", actor) EXCEPT !.x = 0, !.y = 1],
         [BaseCommand("set_flag", actor) EXCEPT !.flag = "alarm"] }
    \cup { [BaseCommand("spawn_unit", actor) EXCEPT
               !.unit = RawUnit("d", "enemy", 1, <<1, 0>>, initiative),
               !.placement_policy = "nearest_open"] : initiative \in {0, 5} }

\* the hazard sources triggered on everyone else: conditions without a save,
\* a save against death and a condition, a basic save against damage and a
\* condition, an affliction
HazardCommands(actor) ==
    { [BaseCommand("trigger_hazard_source", actor) EXCEPT
          !.hazard_id = source[1], !.source_name = source[2]]
        : source \in {<<"condition-immunity-demo", "Lingering Mist">>,
                      <<"doom-demo", "Doom">>,
                      <<"burst-demo", "Burst">>,
                      <<"poisoned-dart-gallery", "Continuous Barrage">>} }
    \cup { BaseCommand("end_turn", actor) }

LifePlans == {"stack", "variants", "duration", "pool", "burn", "afflict", "economy"}

\* the plans of SkirmishSpec: a delayed affliction stage, strikes under
\* cover, flags set twice, a unit taken to hp 0 at the end of its turn
SkirmishPlans == {"delay", "cover", "flags", "down"}

LifeCommands(plan, s) ==
    LET For(actor) ==
            CASE plan = "stack" -> TempHpCommands(actor)
              [] plan = "variants" -> VariantCommands(actor)
              [] plan = "duration" -> ConditionCommands(actor) \cup {BaseCommand("end_turn", actor)}
              [] plan = "pool" -> PoolCommands(actor) \cup {BaseCommand("end_turn", actor)}
              [] plan = "burn" -> BurnCommands(actor) \cup {BaseCommand("end_turn", actor)}
              [] plan = "afflict" ->
                   AfflictionCommands(actor) \cup {BaseCommand("end_turn", actor)}
              [] plan = "delay" -> DelayCommands(actor) \cup {BaseCommand("end_turn", actor)}
              [] plan = "cover" -> CoverCommands(actor)
              [] plan = "flags" -> FlagCommands(actor) \cup {BaseCommand("end_turn", actor)}
              [] plan = "down" -> DownCommands(actor)
              [] plan = "economy" -> EconomyCommands(actor)
              [] plan = "rounds" -> RoundCommands(actor)
              [] plan = "hazard" -> HazardCommands(actor)
    IN For(ActiveUnitId(s))

LifeBudget(plan) ==
    CASE plan = "stack" -> MaxStackSteps
      [] plan = "variants" -> 1
      [] plan \in {"duration", "pool"} -> MaxTurnSteps
      [] plan \in {"burn", "afflict"} -> MaxTickSteps
      [] plan = "delay" -> MaxDelaySteps
      [] plan = "cover" -> MaxCoverSteps
      [] plan = "flags" -> MaxFlagSteps
      [] plan = "down" -> MaxDownSteps
      [] plan = "economy" -> MaxEconomySteps
      [] plan = "rounds" -> MaxRoundSteps
      [] plan = "hazard" -> MaxHazardSteps

\* the battles a plan starts from
LifeStates(plan) ==
    IF plan = "cover"
    THEN {[BattleStateFromScenario(CoverUnits) EXCEPT !.battle_map = map] : map \in CoverMaps}
    ELSE IF plan \in {"rounds", "hazard"} THEN {BattleStateFromScenario(ScenarioUnits)}
    ELSE {BattleStateFromScenario(DuelUnits)}

PlanInit(plans) ==
    /\ kin \in [plan : plans]
    /\ st \in LifeStates(kin.plan)
    /\ last = [cmd |-> BaseCommand("", ""), ok |-> TRUE, err |-> "", again |-> FALSE]
    /\ events = <<>>
    /\ steps = 0
    /\ warm = 0
    /\ kout = [done |-> FALSE]
    /\ IdleDriver

LifeInit == PlanInit(LifePlans)

LifeStep ==
    /\ steps < LifeBudget(kin.plan)
    /\ \E cmd \in LifeCommands(kin.plan, st) :
       \E dice \in DiceFor(st, cmd) :
       \E r \in {ApplyCommand(st, cmd, dice)} :
          /\ st' = CallerState(st, r)
          /\ events' = ReturnedEvents(r)
          /\ last' = [cmd |-> cmd, ok |-> r.ok, err |-> r.err,
                      again |-> last.ok /\ cmd = last.cmd]
    /\ steps' = steps + 1
    /\ UNCHANGED <<warm, kin, kout, drv>>

LifeNext == LifeStep

LifeSpec == LifeInit /\ [][LifeNext]_vars

(***************************************************************************)
(* Specification SkirmishSpec: the same caller on the plans of             *)
(* SkirmishPlans.                                                          *)
(***************************************************************************)
SkirmishInit == PlanInit(SkirmishPlans)

SkirmishSpec == SkirmishInit /\ [][LifeNext]_vars

\* C15: a cast_spell, use_feat, use_item or interact command of the alive
\* active unit with at least action_cost actions remaining succeeds, emits an
\* event of its own type, and lowers the actor's actions_remaining by its
\* action_cost
C15_RicherCommandsSucceed ==
    [][ (/\ steps' = steps + 1
         /\ last'.cmd.type \in {"cast_spell", "use_feat", "use_item", "interact"}
         /\ last'.cmd.actor = ActiveUnitId(st)
         /\ Alive(st.units[last'.cmd.actor])
         /\ st.units[last'.cmd.actor].actions_remaining >= last'.cmd.action_cost)
        => (/\ last'.ok
            /\ \E i \in 1..Len(events') : events'[i].type = last'.cmd.type
            /\ st'.units[last'.cmd.actor].actions_remaining
                 = st.units[last'.cmd.actor].actions_remaining - last'.cmd.action_cost)
      ]_vars

\* the pool a temp_hp grant finds on its target, and the source key it carries
GrantSource(cmd) ==
    IF cmd.payload.source_key \notin {NoSource, EmptySource}
    THEN cmd.payload.source_key ELSE SourceKey("unit", cmd.actor)

\* C16: a temp_hp effect of amount a > 0 applied to a unit whose pool is p:
\* on an empty pool or a pool of the same source, add yields p + a and max
\* yields max(p, a); on a pool of another source, ignore leaves pool, source
\* and owner unchanged, replace sets the pool to a under the new source, and
\* higher_only overwrites only when a > p and otherwise leaves all three
C16_TempHpStacking ==
    [][ (/\ steps' = steps + 1
         /\ last'.ok
         /\ last'.cmd.type = "apply_effect"
         /\ last'.cmd.effect_kind = "temp_hp"
         /\ last'.cmd.payload.amount > 0)
        => LET cmd == last'.cmd
               a == cmd.payload.amount
               old == st.units[cmd.target]
               new == st'.units[cmd.target]
               p == old.temp_hp
               same == p = 0 \/ old.temp_hp_source = GrantSource(cmd)
               kept == /\ new.temp_hp = p
                       /\ new.temp_hp_source = old.temp_hp_source
                       /\ new.temp_hp_owner_effect_id = old.temp_hp_owner_effect_id
               overwritten == new.temp_hp = a /\ new.temp_hp_source = GrantSource(cmd)
           IN CASE same /\ cmd.payload.stack_mode = "add" -> new.temp_hp = p + a
                [] same /\ cmd.payload.stack_mode = "max" -> new.temp_hp = Max(p, a)
                [] ~same /\ cmd.payload.cross_source = "ignore" -> kept
                [] ~same /\ cmd.payload.cross_source = "replace" -> overwritten
                [] ~same /\ cmd.payload.cross_source = "higher_only" ->
                     IF a > p THEN overwritten ELSE kept
                [] OTHER -> TRUE
      ]_vars

\* a grant met a pool of another source that was at least as large and was
\* turned away under higher_only
C16_LowerGrantTurnedAway ==
    /\ steps > 0
    /\ last.ok
    /\ last.cmd.effect_kind = "temp_hp"
    /\ last.cmd.payload.cross_source = "higher_only"
    /\ st.units[last.cmd.target].temp_hp >= last.cmd.payload.amount
    /\ st.units[last.cmd.target].temp_hp_source # GrantSource(last.cmd)
    /\ st.units[last.cmd.target].temp_hp_source # NoSource

\* C17: when a temp_hp effect expires, the target's pool is cleared (temp_hp 0,
\* source and owner null) exactly when remove_on_expire is true and the effect
\* owns the pool; what is removed is what the pool still held; in every other
\* case temp_hp, temp_hp_source and temp_hp_owner_effect_id stay as they were.
\* Read on the calls in which one temp_hp effect expires and nothing ticks.
C17_ExpiryClearsOwnedPool ==
    [][ (/\ steps' = steps + 1
         /\ last'.ok
         /\ last'.cmd.type = "end_turn"
         /\ \A k \in 1..Len(events') : events'[k].type # "effect_tick"
         /\ Cardinality({k \in 1..Len(events') :
                            /\ events'[k].type = "effect_expire"
                            /\ events'[k].payload.kind = "temp_hp"}) = 1)
        => \A k \in 1..Len(events') :
              (/\ events'[k].type = "effect_expire"
               /\ events'[k].payload.kind = "temp_hp")
              => LET effect == st.effects[EffectIndex(st, events'[k].payload.effect_id)]
                     old == st.units[effect.target_unit_id]
                     new == st'.units[effect.target_unit_id]
                     owns == old.temp_hp_owner_effect_id = effect.effect_id
                 IN IF effect.payload.remove_on_expire /\ owns
                    THEN /\ new.temp_hp = 0
                         /\ new.temp_hp_source = NoSource
                         /\ new.temp_hp_owner_effect_id = NoInt
                         /\ events'[k].payload.removed_temp_hp = old.temp_hp
                    ELSE /\ new.temp_hp = old.temp_hp
                         /\ new.temp_hp_source = old.temp_hp_source
                         /\ new.temp_hp_owner_effect_id = old.temp_hp_owner_effect_id
      ]_vars

\* C18: an effect applied with duration_rounds = d >= 1 to target U is in the
\* effects map with that duration; the duration drops by 1 at each turn end of
\* U and at no other time; at the turn end that finds it at 1 (U's d-th) the
\* effect leaves the map, and the condition of a condition effect with
\* clear_on_expire is then absent from U.  Read on condition and temp_hp
\* effects, which nothing but their duration ends.
C18_DurationCountsTargetTurnEnds ==
    [][ (steps' = steps + 1)
        => /\ (/\ last'.ok
               /\ last'.cmd.type = "apply_effect"
               /\ last'.cmd.duration_rounds # NoInt
               /\ last'.cmd.duration_rounds >= 1)
              => \E j \in 1..Len(st'.effects) :
                    /\ st'.effects[j].effect_id = events'[1].payload.effect_id
                    /\ st'.effects[j].target_unit_id = last'.cmd.target
                    /\ st'.effects[j].duration_rounds = last'.cmd.duration_rounds
           /\ \A i \in 1..Len(st.effects) :
                 LET effect == st.effects[i]
                     j == EffectIndex(st', effect.effect_id)
                     ending == /\ last'.ok
                               /\ last'.cmd.type = "end_turn"
                               /\ last'.cmd.actor = effect.target_unit_id
                 IN (/\ effect.kind \in {"condition", "temp_hp"}
                     /\ effect.duration_rounds # NoInt
                     /\ effect.duration_rounds >= 1)
                    => IF ending /\ effect.duration_rounds = 1
                       THEN /\ j = 0
                            /\ (effect.kind = "condition" /\ effect.payload.clear_on_expire)
                               => effect.payload.name
                                    \notin DOMAIN st'.units[effect.target_unit_id].conditions
                       ELSE /\ j # 0
                            /\ st'.effects[j].kind = effect.kind
                            /\ st'.effects[j].target_unit_id = effect.target_unit_id
                            /\ st'.effects[j].payload.name = effect.payload.name
                            /\ st'.effects[j].duration_rounds
                                 = effect.duration_rounds - (IF ending THEN 1 ELSE 0)
      ]_vars

\* the ticks of persistent damage in the events of a call that rolled the
\* recovery check
RecoveryTicks(evs) ==
    {k \in 1..Len(evs) : /\ evs[k].type = "effect_tick"
                         /\ evs[k].payload.kind = "persistent_damage"
                         /\ evs[k].payload.recovery # NULL}

ExpiredAfter(evs, k) ==
    \E m \in (k + 1)..Len(evs) : /\ evs[m].type = "effect_expire"
                                 /\ evs[m].payload.effect_id = evs[k].payload.effect_id

\* C19: when a persistent_damage tick's recovery check is a success or critical
\* success, an effect_expire event follows the effect_tick and the effect is
\* not in the effects map when the command returns; on a failure or critical
\* failure the effect remains in the effects map
C19_RecoveryAsClaimed ==
    [][ (steps' = steps + 1 /\ last'.ok)
        => \A k \in RecoveryTicks(events') :
              IF events'[k].payload.recovery \in {"success", "critical_success"}
              THEN /\ ExpiredAfter(events', k)
                   /\ EffectIndex(st', events'[k].payload.effect_id) = 0
              ELSE EffectIndex(st', events'[k].payload.effect_id) # 0
      ]_vars

\* C19 as amended: after a failed recovery the effect remains unless the tick
\* came at a turn end that brought its duration_rounds to 0; it then expires
\* by duration in the same call
C19_RecoveryOrDurationExpires ==
    [][ (steps' = steps + 1 /\ last'.ok)
        => \A k \in RecoveryTicks(events') :
              LET effect == st.effects[EffectIndex(st, events'[k].payload.effect_id)]
                  runs_out == /\ effect.tick_timing = "turn_end"
                              /\ effect.duration_rounds # NoInt
                              /\ effect.duration_rounds <= 1
              IN IF \/ events'[k].payload.recovery \in {"success", "critical_success"}
                    \/ runs_out
                 THEN /\ ExpiredAfter(events', k)
                      /\ EffectIndex(st', events'[k].payload.effect_id) = 0
                 ELSE EffectIndex(st', events'[k].payload.effect_id) # 0
      ]_vars

\* a tick whose recovery check succeeded without a critical, and the expiry
\* that followed it in the same end_turn
C19_RecoveredAndExpired ==
    /\ last.ok
    /\ last.cmd.type = "end_turn"
    /\ \E k \in RecoveryTicks(events) :
          /\ events[k].payload.recovery = "success"
          /\ ExpiredAfter(events, k)
          /\ EffectIndex(st, events[k].payload.effect_id) = 0

\* the affliction ticks in the events of a call that rolled the stage save
StageSaveTicks(evs) ==
    {k \in 1..Len(evs) : /\ evs[k].type = "effect_tick"
                         /\ evs[k].payload.kind = "affliction"
                         /\ evs[k].payload.save.degree # NULL}

\* the ticks of a call's events that act on one unit
TicksOn(evs, unit_id) ==
    {k \in 1..Len(evs) : evs[k].type = "effect_tick" /\ evs[k].payload.target = unit_id}

\* C20: on an affliction's turn-end tick that rolls the stage save the stage
\* changes by the save's delta (critical success -2, success -1, failure +1,
\* critical failure +2), clamped to [0, max_stage]; at stage 0 the affliction
\* is cured: the tick applies no stage damage and no condition (it reports
\* only the target's hp, and where it is the only tick on its target the
\* target's hp, temp hp and conditions are as before), and the effect is
\* expired and out of the effects map when that end_turn returns
C20_AfflictionStageSave ==
    [][ (steps' = steps + 1 /\ last'.ok)
        => \A k \in StageSaveTicks(events') :
              LET tick == events'[k].payload
                  effect == st.effects[EffectIndex(st, tick.effect_id)]
                  stage_numbers == {effect.payload.stages[i].stage :
                                       i \in 1..Len(effect.payload.stages)}
                  max_stage == CHOOSE m \in stage_numbers : \A n \in stage_numbers : n <= m
                  delta == CASE tick.save.degree = "critical_success" -> -2
                             [] tick.save.degree = "success" -> -1
                             [] tick.save.degree = "failure" -> 1
                             [] tick.save.degree = "critical_failure" -> 2
                  moved == tick.stage_from + delta
                  clamped == IF moved < 0 THEN 0
                             ELSE IF moved > max_stage THEN max_stage ELSE moved
                  old == st.units[effect.target_unit_id]
                  new == st'.units[effect.target_unit_id]
                  at == EffectIndex(st', tick.effect_id)
              IN /\ last'.cmd.type = "end_turn"
                 /\ last'.cmd.actor = effect.target_unit_id
                 /\ tick.stage_from = CurrentStage(effect)
                 /\ tick.stage_to = clamped
                 /\ IF clamped = 0
                    THEN /\ tick.cured
                         /\ ExpiredAfter(events', k)
                         /\ at = 0
                         /\ DOMAIN tick.detail = {"target_hp"}
                         /\ TicksOn(events', effect.target_unit_id) = {k}
                            => /\ new.hp = old.hp
                               /\ new.temp_hp = old.temp_hp
                               /\ \A n \in DOMAIN new.conditions :
                                     /\ n \in DOMAIN old.conditions
                                     /\ new.conditions[n] <= old.conditions[n]
                    ELSE at # 0 => st'.effects[at].payload.current_stage = clamped
      ]_vars

\* an affliction at stage 2 met a critical success: cured from two stages up,
\* and gone from the effects map
C20_CuredFromStageTwo ==
    /\ last.ok
    /\ last.cmd.type = "end_turn"
    /\ \E k \in StageSaveTicks(events) :
          /\ events[k].payload.stage_from = 2
          /\ events[k].payload.stage_to = 0
          /\ events[k].payload.cured

\* C22: a strike resolves one d20 check of the attacker's attack_mod against
\* dc = target.ac + cover bonus (0 for no cover, 2 for standard, 4 for
\* greater); the damage is multiplied by 2 on a critical success and by 1 on a
\* success and taken from the target's pools; on a failure or critical failure
\* no damage dice are rolled and the target's hp and temp_hp are unchanged
C22_StrikeCheckAndCover ==
    [][ (steps' = steps + 1 /\ last'.ok /\ last'.cmd.type = "strike")
        => LET strike == events'[1].payload
               actor == st.units[last'.cmd.actor]
               old == st.units[last'.cmd.target]
               new == st'.units[last'.cmd.target]
               bonus == CASE strike.cover_grade = "none" -> 0
                          [] strike.cover_grade = "standard" -> 2
                          [] strike.cover_grade = "greater" -> 4
               hit == ApplyDamageToPool(old.hp, old.temp_hp, strike.damage.total)
           IN /\ Len(events') = 1
              /\ events'[1].type = "strike"
              /\ strike.cover_grade
                   = CoverGradeBetweenTiles(st, actor.x, actor.y, old.x, old.y)
              /\ strike.roll.die \in 1..20
              /\ strike.roll.modifier = actor.attack_mod
              /\ strike.roll.total = strike.roll.die + actor.attack_mod
              /\ strike.roll.base_dc = old.ac
              /\ strike.roll.cover_bonus = bonus
              /\ strike.roll.dc = old.ac + bonus
              /\ strike.degree
                   = DegreeOfSuccess(strike.roll.total, old.ac + bonus, strike.roll.die)
              /\ IF strike.degree \in {"critical_success", "success"}
                 THEN /\ strike.damage.multiplier
                           = (IF strike.degree = "critical_success" THEN 2 ELSE 1)
                      /\ Len(strike.damage.rolls) = actor.damage.count
                      /\ strike.damage.total
                           = MitigateFor(old,
                                         (SumSeq(strike.damage.rolls) + actor.damage.mod)
                                            * strike.damage.multiplier,
                                         actor.attack_damage_type).applied_total
                      /\ new.hp = hit.new_hp
                      /\ new.temp_hp = hit.new_temp_hp
                 ELSE /\ strike.damage.rolls = <<>>
                      /\ strike.damage.multiplier = 0
                      /\ new.hp = old.hp
                      /\ new.temp_hp = old.temp_hp
      ]_vars

\* a strike behind greater cover: a total that meets the target's ac fails
\* against the dc four higher
C22_GreaterCoverTurnsHitIntoMiss ==
    /\ last.ok
    /\ last.cmd.type = "strike"
    /\ events[1].payload.cover_grade = "greater"
    /\ events[1].payload.roll.dc = events[1].payload.roll.base_dc + 4
    /\ events[1].payload.roll.total >= events[1].payload.roll.base_dc
    /\ events[1].payload.degree = "failure"
    /\ st.units[last.cmd.target].temp_hp = 1

\* the call of this step is a set_flag that repeats the set_flag before it
SetFlagRepeated ==
    /\ steps' = steps + 1
    /\ last'.ok
    /\ last'.cmd.type = "set_flag"
    /\ last'.again

\* C23: set_flag(f, v) applied again right after set_flag(f, v) leaves the
\* state identical to the state after the first application, and each
\* application changes nothing in the state other than flags[f]
C23_SetFlagIdempotentAsClaimed ==
    [][ /\ SetFlagRepeated => st' = st
        /\ (steps' = steps + 1 /\ last'.ok /\ last'.cmd.type = "set_flag")
           => \E flags \in {st'.flags} : st' = [st EXCEPT !.flags = flags]
      ]_vars

\* C23 as amended: the state's event counter is the one other thing a
\* set_flag changes: each application sets flags[f] to v, leaves every other
\* flag as it was, raises event_sequence by one (the event it emits carries
\* that number) and changes nothing else; the second of two equal set_flag
\* calls changes event_sequence alone
C23_SetFlagIdempotentButForEventSequence ==
    [][ /\ SetFlagRepeated => st' = [st EXCEPT !.event_sequence = @ + 1]
        /\ (steps' = steps + 1 /\ last'.ok /\ last'.cmd.type = "set_flag")
           => /\ st'.flags[last'.cmd.flag] = last'.cmd.value
              /\ DOMAIN st'.flags = DOMAIN st.flags \cup {last'.cmd.flag}
              /\ \A f \in DOMAIN st.flags \ {last'.cmd.flag} : st'.flags[f] = st.flags[f]
              /\ st' = [st EXCEPT !.flags = st'.flags, !.event_sequence = @ + 1]
              /\ Len(events') = 1
              /\ events'[1].type = "set_flag"
              /\ events'[1].event_id = EventId(st'.event_sequence)
      ]_vars

\* a flag set to false twice in a row, after another flag was set
C23_FlagSetTwice ==
    /\ steps = 3
    /\ last.ok
    /\ last.again
    /\ last.cmd.type = "set_flag"
    /\ ~last.cmd.value
    /\ st.flags = [f \in {"alarm", "gate_open"} |-> f = "alarm"]
    /\ events[1].event_id = EventId(3)

\* C24: whenever a command reduces a unit's hp to 0 through any damage path
\* (strike, save_damage, area_save_damage, modeled hazard effects, persistent
\* damage tick, affliction stage damage), that unit has the unconscious
\* condition in the state the command returns
C24_DownedUnitIsUnconscious ==
    [][ (steps' = steps + 1 /\ last'.ok)
        => \A u \in DOMAIN st.units :
              (st.units[u].hp > 0 /\ st'.units[u].hp = 0)
              => "unconscious" \in DOMAIN st'.units[u].conditions
      ]_vars

\* the affliction ticks in the events of a call
AfflictionTicks(evs) ==
    {k \in 1..Len(evs) : evs[k].type = "effect_tick" /\ evs[k].payload.kind = "affliction"}

\* the stages an affliction applied in a call: the stage results its
\* effect_apply and effect_tick events carry
StagesApplied(evs) ==
    {k \in 1..Len(evs) :
        \/ /\ evs[k].type = "effect_apply"
           /\ evs[k].payload.kind = "affliction"
           /\ evs[k].payload.stage_result.applied
        \/ /\ k \in AfflictionTicks(evs)
           /\ ~evs[k].payload.waiting
           /\ ~evs[k].payload.cured
           /\ evs[k].payload.detail.applied}

StageResult(event) ==
    IF event.type = "effect_apply" THEN event.payload.stage_result ELSE event.payload.detail

\* C21: a stage whose duration is d rounds delays the affliction: applying the
\* stage leaves d stage rounds; a turn-end tick of the target that finds more
\* than one stage round left is a waiting tick (no save is rolled, no damage
\* is dealt, current_stage stays, one stage round less remains), and the tick
\* that finds one left rolls the save: d - 1 waiting ticks, the save on the d-th
C21_StageDurationDelays ==
    [][ (steps' = steps + 1 /\ last'.ok)
        => /\ \A k \in StagesApplied(events') :
                 LET at == EffectIndex(st', events'[k].payload.effect_id)
                     result == StageResult(events'[k])
                     stage == st'.effects[at].payload.stages[
                                 StageByNumber(st'.effects[at].payload.stages, result.stage)]
                 IN (at # 0 /\ stage.duration.unit = "round" /\ stage.duration.amount >= 1)
                    => /\ result.stage_rounds = stage.duration.amount
                       /\ st'.effects[at].payload.stage_rounds_remaining
                            = stage.duration.amount
           /\ \A k \in AfflictionTicks(events') :
                 LET tick == events'[k].payload
                     effect == st.effects[EffectIndex(st, tick.effect_id)]
                     left == effect.payload.stage_rounds_remaining
                     old == st.units[effect.target_unit_id]
                     new == st'.units[effect.target_unit_id]
                     at == EffectIndex(st', tick.effect_id)
                 IN /\ last'.cmd.type = "end_turn"
                    /\ last'.cmd.actor = effect.target_unit_id
                    /\ tick.waiting <=> left > 1
                    /\ tick.waiting
                       => /\ tick.save.degree = NULL
                          /\ tick.stage_from = CurrentStage(effect)
                          /\ tick.stage_to = tick.stage_from
                          /\ tick.detail.remaining_stage_rounds = left - 1
                          /\ tick.detail.target_hp = old.hp
                          /\ at # 0
                             => /\ CurrentStage(st'.effects[at]) = CurrentStage(effect)
                                /\ st'.effects[at].payload.stage_rounds_remaining = left - 1
                          /\ TicksOn(events', effect.target_unit_id) = {k}
                             => new.hp = old.hp /\ new.temp_hp = old.temp_hp
                    /\ (~tick.waiting /\ effect.payload.save.dc > 0)
                       => tick.save.degree # NULL
           /\ \A i \in 1..Len(st.effects) :
                 (/\ st.effects[i].kind = "affliction"
                  /\ st.effects[i].tick_timing = "turn_end"
                  /\ last'.cmd.type = "end_turn"
                  /\ last'.cmd.actor = st.effects[i].target_unit_id
                  /\ Alive(st'.units[st.effects[i].target_unit_id]))
                 => \E k \in AfflictionTicks(events') :
                       events'[k].payload.effect_id = st.effects[i].effect_id
      ]_vars

\* an affliction whose first stage lasts at least two rounds has waited and
\* now rolls the save of that stage
C21_SaveRolledAfterWaiting ==
    /\ kin.plan = "delay"
    /\ last.ok
    /\ last.cmd.type = "end_turn"
    /\ \E k \in StageSaveTicks(events) :
          /\ events[k].payload.stage_from = 1
          /\ ~events[k].payload.waiting
          /\ EffectIndex(st, events[k].payload.effect_id) = 0

\* the command types that cost one action
PaidTypes ==
    {"move", "strike", "save_damage", "area_save_damage", "apply_effect",
     "trigger_hazard_source", "run_hazard_routine"}

\* C11: every unit has between 0 and 3 actions; a command of a paid type is
\* rejected when its actor has no action left and, when it is accepted, takes
\* exactly one action from its actor; set_flag and spawn_unit without
\* spend_action leave the actor's actions as they were
C11_ActionEconomy ==
    [][ /\ \A u \in DOMAIN st'.units : st'.units[u].actions_remaining \in 0..3
        /\ LET cmd == last'.cmd
               before == st.units[cmd.actor].actions_remaining
               after == st'.units[cmd.actor].actions_remaining
           IN /\ (cmd.type \in PaidTypes /\ before = 0) => ~last'.ok
              /\ (cmd.type \in PaidTypes /\ last'.ok) => after = before - 1
              /\ (last'.ok /\ (cmd.type = "set_flag"
                                \/ (cmd.type = "spawn_unit" /\ ~cmd.spend_action)))
                    => after = before ]_vars

\* a unit that paid three actions is refused a fourth paid command
C11_FourthCommandRefused ==
    /\ kin.plan = "economy"
    /\ steps = 4
    /\ last.cmd.type \in PaidTypes
    /\ ~last.ok
    /\ last.err = "actor has no actions remaining"
    /\ st.units[last.cmd.actor].actions_remaining = 0

(***************************************************************************)
(* Specification DegreeSpec: degree_of_success on every total up to        *)
(* MaxCheckTotal, every dc up to MaxCheckDc and every face of the d20.     *)
(***************************************************************************)
DegreeInputs == [total : 0..MaxCheckTotal, dc : 1..MaxCheckDc, die_value : 1..20]

DegreeInit ==
    /\ IdleReducer
    /\ IdleDriver
    /\ kin \in DegreeInputs
    /\ kout = [done |-> FALSE]

DegreeApply ==
    /\ ~kout.done
    /\ kout' = [done |-> TRUE,
                degree |-> DegreeOfSuccess(kin.total, kin.dc, kin.die_value)]
    /\ UNCHANGED <<st, last, events, steps, warm, kin, drv>>

DegreeNext == DegreeApply

DegreeSpec == DegreeInit /\ [][DegreeNext]_vars

\* the four degrees, from worst to best
DegreeLadder == <<"critical_failure", "failure", "success", "critical_success">>

\* C25: for every total, dc and d20 face, degree_of_success starts from
\* critical_success if total >= dc + 10, success if total >= dc,
\* critical_failure if total <= dc - 10 and failure otherwise, then moves
\* exactly one step up on a natural 20 and exactly one step down on a natural
\* 1, staying at critical_success and critical_failure where no step is left
C25_DegreeWithNaturalBumps ==
    kout.done =>
        LET start == IF kin.total >= kin.dc + 10 THEN 4
                     ELSE IF kin.total >= kin.dc THEN 3
                     ELSE IF kin.total <= kin.dc - 10 THEN 1
                     ELSE 2
            step == IF kin.die_value = 20 THEN 1 ELSE IF kin.die_value = 1 THEN -1 ELSE 0
            rung == IF start + step > 4 THEN 4
                    ELSE IF start + step < 1 THEN 1
                    ELSE start + step
        IN /\ kout.degree = DegreeLadder[rung]
           /\ kin.die_value = 20 => kout.degree # "critical_failure"
           /\ kin.die_value = 1 => kout.degree # "critical_success"

\* a natural 20 on a total ten or more under the dc: failure, not critical
\* failure
C25_NaturalTwentyLiftsCriticalFailure ==
    /\ kout.done
    /\ kin.die_value = 20
    /\ kin.total <= kin.dc - 10
    /\ kout.degree = "failure"

(***************************************************************************)
(* Specification PoolSpec: apply_damage_to_pool on every pool and damage   *)
(* up to MaxPool.                                                          *)
(***************************************************************************)
PoolInputs == [hp : 0..MaxPool, temp_hp : 0..MaxPool, damage_total : 0..MaxPool]

PoolInit ==
    /\ IdleReducer
    /\ IdleDriver
    /\ kin \in PoolInputs
    /\ kout = [done |-> FALSE]

PoolApply ==
    /\ ~kout.done
    /\ kout' = [done |-> TRUE,
                result |-> ApplyDamageToPool(kin.hp, kin.temp_hp, kin.damage_total)]
    /\ UNCHANGED <<st, last, events, steps, warm, kin, drv>>

PoolNext == PoolApply

PoolSpec == PoolInit /\ [][PoolNext]_vars

\* C8: for every damage application, incoming = absorbed_by_temp_hp + hp_loss,
\* new_hp = old_hp - hp_loss and new_temp_hp = old_temp_hp - absorbed_by_temp_hp
C8_PoolEqualitiesAsClaimed ==
    kout.done =>
        /\ kout.result.incoming_total
             = kout.result.absorbed_by_temp_hp + kout.result.hp_loss
        /\ kout.result.new_hp = kin.hp - kout.result.hp_loss
        /\ kout.result.new_temp_hp = kin.temp_hp - kout.result.absorbed_by_temp_hp

\* C8 as amended: the hit points stop at 0,
\* new_hp = max(0, old_hp - hp_loss); the other two equalities as claimed
C8_PoolEqualitiesWithFloor ==
    kout.done =>
        /\ kout.result.incoming_total = kin.damage_total
        /\ kout.result.incoming_total
             = kout.result.absorbed_by_temp_hp + kout.result.hp_loss
        /\ kout.result.new_hp = Max(0, kin.hp - kout.result.hp_loss)
        /\ kout.result.new_temp_hp = kin.temp_hp - kout.result.absorbed_by_temp_hp

\* a hit larger than the temporary and the real hit points together
C8_OverkillApplied ==
    /\ kout.done
    /\ kin.temp_hp > 0
    /\ kin.hp > 0
    /\ kin.damage_total > kin.temp_hp + kin.hp
    /\ kout.result.new_hp = 0

(***************************************************************************)
(* Specification MitigationSpec: apply_damage_modifiers as the reducer and *)
(* the lifecycle call it.  The attack's bypass tags are part of the input; *)
(* no call site hands them to the kernel, which has no parameter for them. *)
(***************************************************************************)
ModifierDicts ==
    { EmptyDict, [fire |-> 1], [fire |-> MaxMod, energy |-> 1], [all |-> 1, slash |-> MaxMod] }

MitigationInputs ==
    [raw_total : 1..MaxRaw,
     damage_type : {"fire", "slashing", "poison"},
     resistances : ModifierDicts,
     weaknesses : ModifierDicts,
     immunities : {{}, {"fire"}, {"physical"}, {"all"}},
     bypass : {{}, {"fire"}}]

MitigationInit ==
    /\ IdleReducer
    /\ IdleDriver
    /\ kin \in MitigationInputs
    /\ kout = [done |-> FALSE]

MitigationApply ==
    /\ ~kout.done
    /\ kout' = [done |-> TRUE,
                result |-> ApplyDamageModifiers(kin.raw_total, kin.damage_type,
                                                kin.resistances, kin.weaknesses,
                                                kin.immunities)]
    /\ UNCHANGED <<st, last, events, steps, warm, kin, drv>>

MitigationNext == MitigationApply

MitigationSpec == MitigationInit /\ [][MitigationNext]_vars

\* the entries of a modifier dict that the bypass tags leave in place
NotBypassed(modifiers, bypass) ==
    [key \in {k \in DOMAIN modifiers : NormalizedDamageType(k) \notin bypass}
        |-> modifiers[key]]

\* C9: if the unit is immune to a tag of the damage type (the type, its group,
\* or all) and the immunity is not bypassed, applied_total = 0; otherwise
\* applied_total = max(0, raw - R + W), R the highest matching resistance that
\* is not bypassed and W the highest matching weakness
C9_MitigationAsClaimed ==
    kout.done =>
        LET tags == DamageTypeTags(kin.damage_type)
            immunity_set == {NormalizedDamageType(x) : x \in kin.immunities} \ kin.bypass
            immune == "all" \in immunity_set \/ tags \cap immunity_set # {}
            R == HighestMatchingModifier(NotBypassed(kin.resistances, kin.bypass), tags)
            W == HighestMatchingModifier(kin.weaknesses, tags)
        IN kout.result.applied_total
             = IF immune THEN 0 ELSE Max(0, kin.raw_total - R + W)

(***************************************************************************)
(* engine/core/objectives.py                                               *)
(***************************************************************************)
\* an objective as a scenario lists it; a key the type does not read is idle
Objective(id, type, result) ==
    [id |-> id, type |-> type, result |-> result, team |-> "", unit_id |-> "",
     x |-> -99999, y |-> -99999, flag |-> "", value |-> TRUE, round |-> 0]

ObjectiveMet(s, objective) ==
    CASE objective.type = "team_eliminated" ->
           /\ objective.team # ""
           /\ ~\E u \in DOMAIN s.units :
                 Alive(s.units[u]) /\ s.units[u].team = objective.team
      [] objective.type = "unit_reach_tile" ->
           /\ objective.unit_id \in DOMAIN s.units
           /\ Alive(s.units[objective.unit_id])
           /\ s.units[objective.unit_id].x = objective.x
           /\ s.units[objective.unit_id].y = objective.y
      [] objective.type = "flag_set" ->
           /\ objective.flag # ""
           /\ (IF objective.flag \in DOMAIN s.flags THEN s.flags[objective.flag] ELSE FALSE)
                = objective.value
      [] objective.type = "round_at_least" -> s.round_number >= objective.round
      [] objective.type = "unit_dead" ->
           /\ objective.unit_id \in DOMAIN s.units
           /\ ~Alive(s.units[objective.unit_id])
      [] objective.type = "unit_alive" ->
           /\ objective.unit_id \in DOMAIN s.units
           /\ Alive(s.units[objective.unit_id])
      [] OTHER -> FALSE

\* str(objective.get("id") or f"objective_{idx + 1}"), idx counted from 1 here
ObjectiveId(objective, idx) ==
    IF objective.id # "" THEN [name |-> objective.id, n |-> 0]
    ELSE [name |-> "objective_", n |-> idx]

\* the loop of evaluate_objectives: statuses[objective_id] = met, in list order
RECURSIVE ObjectiveStatuses(_, _, _)
ObjectiveStatuses(s, objectives, upto) ==
    IF upto = 0 THEN [oid \in {} |-> FALSE]
    ELSE LET Assigned(earlier, objective_id, met) ==
                 [oid \in DOMAIN earlier \cup {objective_id} |->
                     IF oid = objective_id THEN met ELSE earlier[oid]]
         IN Assigned(ObjectiveStatuses(s, objectives, upto - 1),
                     ObjectiveId(objectives[upto], upto),
                     ObjectiveMet(s, objectives[upto]))

ResultIds(objectives, defeat) ==
    LET Listed(idxs) == [i \in 1..Len(idxs) |-> ObjectiveId(objectives[idxs[i]], idxs[i])]
    IN Listed(FilterSeq([i \in 1..Len(objectives) |-> i],
                        {i \in 1..Len(objectives) :
                            (objectives[i].result = "defeat") = defeat}))

EvaluateObjectives(s, objectives) ==
    LET Evaluated(statuses, victory_ids, defeat_ids) ==
            [statuses |-> statuses,
             victory_met |-> /\ Len(victory_ids) > 0
                             /\ \A i \in 1..Len(victory_ids) : statuses[victory_ids[i]],
             defeat_met |-> \E i \in 1..Len(defeat_ids) : statuses[defeat_ids[i]],
             victory_objectives |-> victory_ids,
             defeat_objectives |-> defeat_ids]
    IN Evaluated(ObjectiveStatuses(s, objectives, Len(objectives)),
                 ResultIds(objectives, FALSE), ResultIds(objectives, TRUE))

(***************************************************************************)
(* Specification ObjectiveSpec: evaluate_objectives on every list of up to *)
(* MaxObjectives objectives over a battle where the gate flag may be set   *)
(* and unit b may be down.                                                 *)
(***************************************************************************)
ObjectiveChoices ==
    UNION { { [Objective(id, "flag_set", result) EXCEPT !.flag = "gate"],
              [Objective(id, "unit_dead", result) EXCEPT !.unit_id = "b"],
              [Objective(id, "team_eliminated", result) EXCEPT !.team = "enemy"],
              [Objective(id, "round_at_least", result) EXCEPT !.round = 2] }
            : <<id, result>> \in {"a", "b", ""} \X {"victory", "defeat"} }

ObjectiveLists == UNION { [1..n -> ObjectiveChoices] : n \in 0..MaxObjectives }

ObjectiveStates ==
    { [BattleStateFromScenario(ScenarioUnits) EXCEPT
          !.flags = flags,
          !.units["b"] = IF b_down THEN MarkUnconsciousIfDown(DamageUnit(@, @.hp + @.temp_hp))
                         ELSE @]
      : <<flags, b_down>> \in {EmptyDict, [gate |-> TRUE]} \X BOOLEAN }

ObjectiveInit ==
    /\ IdleReducer
    /\ IdleDriver
    /\ kin \in [state : ObjectiveStates, objectives : ObjectiveLists]
    /\ kout = [done |-> FALSE]

ObjectiveEvaluate ==
    /\ ~kout.done
    /\ kout' = [done |-> TRUE, result |-> EvaluateObjectives(kin.state, kin.objectives)]
    /\ UNCHANGED <<st, last, events, steps, warm, kin, drv>>

ObjectiveNext == ObjectiveEvaluate

ObjectiveSpec == ObjectiveInit /\ [][ObjectiveNext]_vars

\* C13: victory is reported met exactly when the list has a victory objective
\* and every victory objective is true; defeat is reported met exactly when
\* some defeat objective is true
C13_VictoryAllDefeatAny ==
    kout.done =>
        LET victory == {i \in 1..Len(kin.objectives) : kin.objectives[i].result # "defeat"}
            defeat == {i \in 1..Len(kin.objectives) : kin.objectives[i].result = "defeat"}
        IN /\ kout.result.victory_met
                = (/\ victory # {}
                   /\ \A i \in victory : ObjectiveMet(kin.state, kin.objectives[i]))
           /\ kout.result.defeat_met
                = (\E i \in defeat : ObjectiveMet(kin.state, kin.objectives[i]))

(***************************************************************************)
(* engine/cli/run_scenario.py: run_scenario_file.  drv holds the locals of *)
(* the run: the scenario, the state, the event log, the counters, the RNG  *)
(* cursor, and pc, the place of the run (start, loop, done).               *)
(***************************************************************************)
\* the stream as apply_command finds it after n words were drawn
Shift(dice, n) == [i \in 1..Len(dice) |-> dice[((i - 1 + n) % Len(dice)) + 1]]

\* DeterministicRNG(seed=state.seed): the cursor of a new stream, whatever
\* cursor an earlier run in the same process was left with
SeededRngShared(dice, earlier_cursor) == earlier_cursor

SeededRng(dice, earlier_cursor) == 0

DriverEventId(kind, step_counter) == [ns |-> kind, digits |-> Digits(step_counter, 4)]

DriverEvent(d, kind, event_type, payload) ==
    [event_id |-> DriverEventId(kind, d.step_counter),
     round |-> d.state.round_number,
     active_unit |-> ActiveUnitId(d.state),
     type |-> event_type,
     payload |-> payload]

AliveTeams(s) == {s.units[u].team : u \in AliveIds(s)}

EndBattleUntold(d, payload) ==
    [d EXCEPT !.events = Append(@, DriverEvent(d, "ev_done", "battle_end", payload))]

\* the battle_end event is appended and True is returned for ended
EndBattle(d, payload) ==
    [d EXCEPT !.events = Append(@, DriverEvent(d, "ev_done", "battle_end", payload)),
              !.ended = TRUE]

\* _check_battle_end: the objectives first, then the teams left alive
CheckBattleEnd(d) ==
    LET alive_teams == AliveTeams(d.state)
        winner == IF alive_teams = {} THEN NULL ELSE CHOOSE t \in alive_teams : TRUE
        Teams(u) ==
            IF Cardinality(alive_teams) <= 1
            THEN EndBattle(u, [winner_team |-> winner])
            ELSE u
        Decided(objective_state, u) ==
            IF objective_state.defeat_met \/ objective_state.victory_met
            THEN EndBattle(u, [reason |-> "objectives",
                               outcome |-> IF objective_state.defeat_met
                                           THEN "defeat" ELSE "victory",
                               objective_statuses |-> u.objective_statuses])
            ELSE Teams(u)
        Evaluated(objective_state) ==
            Decided(objective_state,
                    IF objective_state.statuses # d.objective_statuses
                    THEN [d EXCEPT !.events =
                             Append(@, DriverEvent(d, "ev_obj", "objective_update",
                                       [statuses |-> objective_state.statuses,
                                        victory_met |-> objective_state.victory_met,
                                        defeat_met |-> objective_state.defeat_met])),
                                   !.objective_statuses = objective_state.statuses]
                    ELSE d)
    IN IF d.scenario.objectives # <<>>
       THEN Evaluated(EvaluateObjectives(d.state, d.scenario.objectives))
       ELSE Teams(d)

\* the except ReductionError blocks: a command_error event closes the log
CommandErrorSilent(d, cmd, err) == [d EXCEPT !.stop_reason = "command_error"]

CommandError(d, cmd, err) ==
    [d EXCEPT !.events = Append(@, DriverEvent(d, "ev_error", "command_error",
                                               [command |-> cmd, error |-> err])),
              !.stop_reason = "command_error"]

\* state, new_events = apply_command(state, command, rng) as the driver sees
\* it: r.ok tells whether it returned; the cursor moves by the words drawn
\* The run also keeps a record of its calls: how many raised, how many of
\* those were the enemy policy's own command, which a fallback replaces
\* (absorbable), how many calls were made after one that raised, how many
\* after a battle_end event, and, in trail, which source made each call of
\* the present pass of the loop.
HasBattleEnd(log) == \E k \in 1..Len(log) : log[k].type = "battle_end"

DriverApply(d, cmd, absorbable, source) ==
    LET Applied(r) ==
            [ok |-> r.ok, err |-> r.err,
             d |-> [d EXCEPT !.state = CallerState(d.state, r),
                             !.rng = (@ + r.w.k) % DiceLen,
                             !.after_raise = IF d.raised > 0 THEN @ + 1 ELSE @,
                             !.after_final = IF d.raised > d.absorbed THEN @ + 1 ELSE @,
                             !.after_end = IF HasBattleEnd(d.events) THEN @ + 1 ELSE @,
                             !.trail = Append(@, source),
                             !.raised = IF r.ok THEN @ ELSE @ + 1,
                             !.absorbed = IF ~r.ok /\ absorbable THEN @ + 1 ELSE @],
             new_events |-> ReturnedEvents(r)]
    IN Applied(ApplyCommand(d.state, cmd, Shift(d.scenario.dice, d.rng)))

\* the statements after the loop, and the result record
\* the statement after the loop, left out
ConcludeAsLeft(d) == [d EXCEPT !.pc = "done"]

Conclude(d) ==
    [d EXCEPT !.stop_reason = IF ~d.ended /\ d.step_counter >= d.scenario.max_steps
                              THEN "max_steps" ELSE @,
              !.pc = "done"]

\* a step that succeeded: extend the log, count it, look for the battle's end
AfterSuccess(applied, scripted) ==
    LET counted == [applied.d EXCEPT
                      !.events = @ \o applied.new_events,
                      !.step_counter = @ + 1,
                      !.command_index = IF scripted THEN @ + 1 ELSE @,
                      !.scripted_executed = IF scripted THEN @ + 1 ELSE @,
                      !.auto_executed = IF scripted THEN @ ELSE @ + 1]
        checked == CheckBattleEnd(counted)
    IN [checked EXCEPT !.stop_reason = IF checked.ended THEN "battle_end" ELSE @]

\* _mission_event_eligible
MissionEventEligible(s, mission_event, once_completed) ==
    LET trigger == StrOr(mission_event.trigger, "turn_start")
        unit_known == mission_event.unit_id \in DOMAIN s.units
        flag_now(f) == IF f \in DOMAIN s.flags THEN s.flags[f] ELSE FALSE
    IN /\ ~(mission_event.once /\ mission_event.id \in once_completed)
       /\ CASE trigger = "round_start" -> s.turn_index = 0
            [] trigger = "turn_start" -> TRUE
            [] trigger = "unit_dead" ->
                 unit_known /\ ~Alive(s.units[mission_event.unit_id])
            [] trigger = "unit_alive" ->
                 unit_known /\ Alive(s.units[mission_event.unit_id])
            [] trigger = "flag_set" ->
                 mission_event.flag # "" /\ flag_now(mission_event.flag) = mission_event.value
            [] OTHER -> FALSE
       /\ mission_event.round = NoInt \/ s.round_number = mission_event.round
       /\ s.round_number >= mission_event.start_round
       /\ mission_event.end_round = NoInt \/ s.round_number <= mission_event.end_round
       /\ mission_event.active_unit = NULL \/ mission_event.active_unit = ActiveUnitId(s)
       /\ mission_event.enabled_flag = NULL \/ flag_now(mission_event.enabled_flag)
       /\ mission_event.disabled_flag = NULL \/ ~flag_now(mission_event.disabled_flag)

\* _mission_command: the actor defaults to the unit active at dispatch
MissionCommand(raw_command, active_unit_id) ==
    IF raw_command.actor = NULL THEN [raw_command EXCEPT !.actor = active_unit_id]
    ELSE raw_command

\* the commands of one mission event, until one raises or the battle ends
RECURSIVE MissionCommands(_, _)
MissionCounted(after, rest) ==
    IF after.ended THEN after ELSE MissionCommands(after, rest)

MissionApplied(applied, mission_command, rest) ==
    IF ~applied.ok
    THEN [CommandError(applied.d, mission_command, applied.err) EXCEPT !.ended = TRUE]
    ELSE MissionCounted(AfterSuccess(applied, FALSE), rest)

MissionDispatched(d, mission_command, rest) ==
    MissionApplied(DriverApply(d, mission_command, FALSE, "mission"), mission_command, rest)

MissionCommands(d, event_commands) ==
    IF event_commands = <<>> THEN d
    ELSE MissionDispatched(d, MissionCommand(Head(event_commands), ActiveUnitId(d.state)),
                           Tail(event_commands))

\* the for loop over mission_events; ran tells whether one was run
RECURSIVE MissionLoop(_, _, _)
MissionLoop(d, idx, ran) ==
    IF idx > Len(d.scenario.mission_events) THEN [d |-> d, ran |-> ran]
    ELSE LET mission_event == d.scenario.mission_events[idx]
             turn_key == <<d.state.round_number, d.state.turn_index, mission_event.id>>
             marked == [d EXCEPT
                          !.mission_turn_executed = @ \cup {turn_key},
                          !.mission_once_completed =
                              IF mission_event.once THEN @ \cup {mission_event.id} ELSE @]
             announced == [marked EXCEPT !.events =
                             Append(@, DriverEvent(d, "ev_mission", "mission_event",
                                       [id |-> mission_event.id,
                                        trigger |-> StrOr(mission_event.trigger, "turn_start"),
                                        branch |-> "default",
                                        command_count |-> Len(mission_event.commands)]))]
             Executed(executed) ==
                 IF executed.ended THEN [d |-> executed, ran |-> TRUE]
                 ELSE MissionLoop(executed, idx + 1, TRUE)
         IN IF turn_key \in d.mission_turn_executed
               \/ ~MissionEventEligible(d.state, mission_event, d.mission_once_completed)
            THEN MissionLoop(d, idx + 1, ran)
            ELSE IF mission_event.commands = <<>>
            THEN MissionLoop(marked, idx + 1, ran)
            ELSE Executed(MissionCommands(announced, mission_event.commands))

\* one entry of the scenario's hazard_routines, with the setdefault values
HazardRoutine(id, unit_id, hazard_id, source_name) ==
    [id |-> id, unit_id |-> unit_id, hazard_id |-> hazard_id,
     source_name |-> source_name, source_type |-> "trigger_action",
     target_policy |-> "nearest_enemy", start_round |-> 1, end_round |-> NoInt,
     once |-> FALSE, auto_end_turn |-> TRUE, priority |-> 0, cadence_rounds |-> 1,
     max_triggers |-> NoInt, enabled_flag |-> NULL, disabled_flag |-> NULL,
     center_x |-> NoInt, center_y |-> NoInt, target |-> NULL]

\* routine ids compare as strings; the rank gives their lexicographic order
RoutineIdRank == [burn |-> 1, burst |-> 2, routine_1 |-> 3, routine_2 |-> 4]

\* routine.setdefault("id", f"routine_{idx + 1}"), idx counted from 1 here
RoutineId(raw, idx) == IF raw.id = "" THEN "routine_" \o ToString(idx) ELSE raw.id

\* _normalize_hazard_routines: the routines of one unit, sorted by
\* (priority, id); the sort keeps the list order of equal keys
RECURSIVE SortedRoutines(_, _)
SortedRoutines(hazard_routines, idxs) ==
    IF idxs = {} THEN <<>>
    ELSE LET Id(i) == RoutineId(hazard_routines[i], i)
             Before(i, j) ==
                 \/ hazard_routines[i].priority < hazard_routines[j].priority
                 \/ /\ hazard_routines[i].priority = hazard_routines[j].priority
                    /\ \/ RoutineIdRank[Id(i)] < RoutineIdRank[Id(j)]
                       \/ Id(i) = Id(j) /\ i < j
             first == CHOOSE i \in idxs : \A j \in idxs \ {i} : Before(i, j)
         IN <<[hazard_routines[first] EXCEPT !.id = Id(first)]>>
               \o SortedRoutines(hazard_routines, idxs \ {first})

NormalizeHazardRoutines(hazard_routines, unit_id) ==
    SortedRoutines(hazard_routines,
                   {i \in 1..Len(hazard_routines) : hazard_routines[i].unit_id = unit_id})

\* _routine_eligible
RoutineEligible(s, routine, once_completed, use_counts) ==
    LET flag_now(f) == IF f \in DOMAIN s.flags THEN s.flags[f] ELSE FALSE
        used == IF routine.id \in DOMAIN use_counts THEN use_counts[routine.id] ELSE 0
    IN /\ ~(routine.once /\ routine.id \in once_completed)
       /\ routine.max_triggers = NoInt \/ used < routine.max_triggers
       /\ s.round_number >= routine.start_round
       /\ routine.end_round = NoInt \/ s.round_number <= routine.end_round
       /\ (s.round_number - routine.start_round) % Max(1, routine.cadence_rounds) = 0
       /\ routine.enabled_flag = NULL \/ flag_now(routine.enabled_flag)
       /\ routine.disabled_flag = NULL \/ ~flag_now(routine.disabled_flag)

\* _routine_command
RoutineCommand(actor, routine) ==
    [BaseCommand("run_hazard_routine", actor) EXCEPT
        !.hazard_id = routine.hazard_id, !.source_name = routine.source_name,
        !.source_type = routine.source_type, !.target_policy = routine.target_policy,
        !.center_x = routine.center_x, !.center_y = routine.center_y,
        !.target = routine.target]

\* the for loop over the routines of the unit that was active when the pass
\* of the loop began; ran tells whether one was run
RECURSIVE RoutineLoop(_, _, _, _)
RoutineRest(after, active_unit_id, routines) ==
    IF after.ended THEN [d |-> after, ran |-> TRUE]
    ELSE RoutineLoop(after, active_unit_id, Tail(routines), TRUE)

\* the automatic end_turn after a routine
RoutineEnded(ending, active_unit_id, routines) ==
    IF ~ending.ok
    THEN [d |-> [CommandError(ending.d, BaseCommand("end_turn", active_unit_id),
                              ending.err) EXCEPT !.ended = TRUE],
          ran |-> TRUE]
    ELSE RoutineRest(AfterSuccess(ending, FALSE), active_unit_id, routines)

RoutineCounted(after, active_unit_id, routines) ==
    IF ~after.ended
       /\ Head(routines).auto_end_turn
       /\ ActiveUnitId(after.state) = active_unit_id
       /\ Alive(after.state.units[active_unit_id])
    THEN RoutineEnded(DriverApply(after, BaseCommand("end_turn", active_unit_id),
                                  FALSE, "end_turn"),
                      active_unit_id, routines)
    ELSE RoutineRest(after, active_unit_id, routines)

RoutineMarked(u, routine, turn_key) ==
    [u EXCEPT
       !.routine_turn_executed = @ \cup {turn_key},
       !.routine_use_counts =
           [id \in DOMAIN @ \cup {routine.id} |->
               IF id = routine.id
               THEN (IF id \in DOMAIN @ THEN @[id] ELSE 0) + 1
               ELSE @[id]],
       !.routine_once_completed = IF routine.once THEN @ \cup {routine.id} ELSE @]

RoutineApplied(applied, routine_cmd, turn_key, ran, active_unit_id, routines) ==
    IF ~applied.ok
    THEN [d |-> [CommandError(applied.d, routine_cmd, applied.err) EXCEPT !.ended = TRUE],
          ran |-> ran]
    ELSE RoutineCounted(RoutineMarked(AfterSuccess(applied, FALSE), Head(routines),
                                      turn_key),
                        active_unit_id, routines)

RoutineDispatched(d, routine_cmd, turn_key, ran, active_unit_id, routines) ==
    RoutineApplied(DriverApply(d, routine_cmd, FALSE, "routine"), routine_cmd, turn_key,
                   ran, active_unit_id, routines)

RoutineLoop(d, active_unit_id, routines, ran) ==
    IF routines = <<>> THEN [d |-> d, ran |-> ran]
    ELSE IF <<d.state.round_number, d.state.turn_index, Head(routines).id>>
               \in d.routine_turn_executed
            \/ ~RoutineEligible(d.state, Head(routines), d.routine_once_completed,
                                d.routine_use_counts)
    THEN RoutineLoop(d, active_unit_id, Tail(routines), ran)
    ELSE RoutineDispatched(d, RoutineCommand(active_unit_id, Head(routines)),
                           <<d.state.round_number, d.state.turn_index, Head(routines).id>>,
                           ran, active_unit_id, routines)

\* _nearest_enemy_for_actor: sorted by (distance, unit_id); NULL when none
NearestEnemyForActor(s, actor_id) ==
    LET actor == s.units[actor_id]
        enemies == {u \in AliveIds(s) : s.units[u].team # actor.team /\ u # actor_id}
        dist(u) == ManhattanDistance(s.units[u].x, s.units[u].y, actor.x, actor.y)
    IN IF enemies = {} THEN NULL
       ELSE CHOOSE u \in enemies :
              \A v \in enemies \ {u} :
                 dist(u) < dist(v) \/ (dist(u) = dist(v) /\ IdRank[u] < IdRank[v])

\* a policy that acts for the active unit of any team
EnemyPolicyCommandAnyTeam(s, policy) ==
    LET actor_id == ActiveUnitId(s)
        actor == s.units[actor_id]
        target_id == NearestEnemyForActor(s, actor_id)
    IN IF ~Alive(actor) \/ actor.actions_remaining <= 0
       THEN BaseCommand("end_turn", actor_id)
       ELSE IF policy.action = "strike_nearest" /\ target_id # NULL
       THEN [BaseCommand("strike", actor_id) EXCEPT !.target = target_id]
       ELSE BaseCommand("end_turn", actor_id)

\* _enemy_policy_command, for the action strike_nearest
EnemyPolicyCommand(s, policy) ==
    LET actor_id == ActiveUnitId(s)
        actor == s.units[actor_id]
        target_id == NearestEnemyForActor(s, actor_id)
    IN IF ~Alive(actor) \/ actor.actions_remaining <= 0
       THEN BaseCommand("end_turn", actor_id)
       ELSE IF actor.team \notin policy.teams THEN BaseCommand("end_turn", actor_id)
       ELSE IF policy.action = "strike_nearest" /\ target_id # NULL
       THEN [BaseCommand("strike", actor_id) EXCEPT !.target = target_id]
       ELSE BaseCommand("end_turn", actor_id)

\* run_scenario_file up to the loop: load, seed, first event, first end check
BeginRun(d) ==
    LET state == BattleStateFromScenario(d.scenario.units)
        opened == [d EXCEPT
                     !.state = state,
                     !.rng = SeededRng(d.scenario.dice, d.rng),
                     !.events = << [event_id |-> [ns |-> "ev",
                                                  digits |-> <<0, 0, 0, 0, 0, 0>>],
                                    round |-> state.round_number,
                                    active_unit |-> ActiveUnitId(state),
                                    type |-> "turn_start",
                                    payload |-> [active_unit |-> ActiveUnitId(state),
                                                 round |-> state.round_number]] >>,
                     !.scripted_executed = 0, !.auto_executed = 0, !.step_counter = 0,
                     !.objective_statuses = EmptyDict,
                     !.mission_turn_executed = {}, !.mission_once_completed = {},
                     !.routine_turn_executed = {}, !.routine_once_completed = {},
                     !.routine_use_counts = EmptyDict,
                     !.ended = FALSE, !.command_index = 0,
                     !.stop_reason = "script_exhausted",
                     !.raised = 0, !.absorbed = 0, !.after_raise = 0, !.after_final = 0,
                     !.after_end = 0, !.trail = <<>>,
                     !.pc = "loop"]
        checked == CheckBattleEnd(opened)
    IN [checked EXCEPT !.stop_reason = IF checked.ended THEN "battle_end" ELSE @]

\* one pass of the loop that takes the next scripted command
ScriptedApplied(applied, cmd) ==
    IF ~applied.ok THEN Conclude(CommandError(applied.d, cmd, applied.err))
    ELSE AfterSuccess(applied, TRUE)

ScriptedDispatched(d, cmd) ==
    IF cmd.actor # ActiveUnitId(d.state)
    THEN Conclude(CommandError([d EXCEPT !.raised = @ + 1], cmd,
                               "actor is not active unit"))
    ELSE ScriptedApplied(DriverApply(d, cmd, FALSE, "scripted"), cmd)

ScriptedStep(d) == ScriptedDispatched(d, d.scenario.commands[d.command_index + 1])

\* one pass of the loop that lets the enemy policy act: the automatic
\* end_turn after a policy command that was not one
PolicyEnded(ending, end_turn_cmd) ==
    IF ~ending.ok THEN Conclude(CommandError(ending.d, end_turn_cmd, ending.err))
    ELSE AfterSuccess(ending, FALSE)

PolicyCounted(policy, policy_actor_id, final_cmd, after) ==
    IF ~after.ended
       /\ policy.auto_end_turn
       /\ final_cmd.type # "end_turn"
       /\ ActiveUnitId(after.state) = policy_actor_id
       /\ Alive(after.state.units[policy_actor_id])
    THEN PolicyEnded(DriverApply(after, BaseCommand("end_turn", policy_actor_id),
                                 FALSE, "end_turn"),
                     BaseCommand("end_turn", policy_actor_id))
    ELSE after

\* the command that stands: the policy's own, or the fallback end_turn
PolicyFinal(policy, policy_actor_id, final_cmd, applied) ==
    IF ~applied.ok THEN Conclude(CommandError(applied.d, final_cmd, applied.err))
    ELSE PolicyCounted(policy, policy_actor_id, final_cmd, AfterSuccess(applied, FALSE))

PolicyFallback(policy, policy_actor_id, policy_cmd, fallback, first) ==
    PolicyFinal(policy, policy_actor_id,
                IF first.ok THEN policy_cmd ELSE fallback,
                IF first.ok THEN first
                ELSE DriverApply(first.d, fallback, FALSE, "policy"))

PolicyTried(policy, policy_actor_id, policy_cmd, first) ==
    IF ~first.ok /\ policy_cmd.type = "end_turn"
    THEN Conclude(CommandError(first.d, policy_cmd, "enemy_policy_failed"))
    ELSE PolicyFallback(policy, policy_actor_id, policy_cmd,
                        BaseCommand("end_turn", ActiveUnitId(first.d.state)), first)

PolicyDecided(d, policy_cmd) ==
    PolicyTried(d.scenario.policy, ActiveUnitId(d.state), policy_cmd,
                DriverApply([d EXCEPT !.events =
                               Append(@, DriverEvent(d, "ev_policy",
                                                     "enemy_policy_decision",
                                                     [command |-> policy_cmd]))],
                            policy_cmd, policy_cmd.type # "end_turn", "policy"))

PolicyStep(d) == PolicyDecided(d, EnemyPolicyCommand(d.state, d.scenario.policy))

(***************************************************************************)
(* The scenarios the driver runs                                           *)
(***************************************************************************)
\* e and c face each other across the blocked tile
FlankUnits ==
    << RawUnit("e", "pc", 2, <<0, 1>>, 3),
       RawUnit("b", "enemy", 1, <<1, 0>>, 2),
       RawUnit("c", "enemy", 2, <<2, 1>>, 1) >>

Scripts ==
    LET strike(a, t) == [BaseCommand("strike", a) EXCEPT !.target = t]
        move(a, x, y) == [BaseCommand("move", a) EXCEPT !.x = x, !.y = y]
        end_turn(a) == BaseCommand("end_turn", a)
        burn(a, t) == [BaseCommand("apply_effect", a) EXCEPT
                          !.effect_kind = "persistent_damage", !.target = t,
                          !.payload.formula = Formula(0, 1, 2),
                          !.tick_timing = "turn_start"]
        blast(a) == [BaseCommand("area_save_damage", a) EXCEPT !.x = 1]
    IN { <<>>,
         <<strike("e", "b"), end_turn("e"), end_turn("b")>>,
         <<end_turn("e"), strike("c", "e")>>,
         <<move("e", 1, 1)>>,
         <<burn("e", "b"), end_turn("e"), end_turn("b")>>,
         <<blast("e"), end_turn("e")>>,
         <<[BaseCommand("set_flag", "e") EXCEPT !.flag = "alarm"], end_turn("e")>> }

NoPolicy == [enabled |-> FALSE, teams |-> {"enemy"}, action |-> "strike_nearest",
             auto_end_turn |-> TRUE]

Policies ==
    { NoPolicy,
      [NoPolicy EXCEPT !.enabled = TRUE],
      [NoPolicy EXCEPT !.enabled = TRUE, !.auto_end_turn = FALSE] }

MissionEvent(id, trigger, commands) ==
    [id |-> id, trigger |-> trigger, once |-> TRUE, commands |-> commands,
     round |-> NoInt, start_round |-> 1, end_round |-> NoInt, active_unit |-> NULL,
     unit_id |-> "", flag |-> "", value |-> TRUE, enabled_flag |-> NULL,
     disabled_flag |-> NULL]

\* a reinforcement wave, as _normalize_mission_events expands it
Wave(raw, flag) ==
    MissionEvent("wave", "round_start",
        << [BaseCommand("spawn_unit", NULL) EXCEPT !.unit = raw,
                                                   !.placement_policy = "exact"],
           [BaseCommand("set_flag", NULL) EXCEPT !.flag = flag] >>)

MissionSets ==
    { <<>>,
      << Wave(RawUnit("d", "enemy", 1, <<2, 0>>, 0), "wave_done") >>,
      << [MissionEvent("alarm", "flag_set", <<BaseCommand("end_turn", NULL)>>)
             EXCEPT !.flag = "alarm"] >> }

\* the hazard routines of unit e: none, one that burns the nearest enemy, a
\* burst that leaves the turn open before the burn, one whose source is missing
RoutineSets ==
    { <<>>,
      << HazardRoutine("burn", "e", "mitigation-demo", "Burn") >>,
      << [HazardRoutine("", "e", "burst-demo", "Burst") EXCEPT
             !.target_policy = "nearest_enemy_area_center", !.auto_end_turn = FALSE,
             !.priority = 1],
         HazardRoutine("burn", "e", "mitigation-demo", "Burn") >>,
      << [HazardRoutine("burst", "e", "burst-demo", "Nope") EXCEPT !.once = TRUE] >> }

\* no objectives; victory when the gate is open; defeat when b is down
ObjectiveSets ==
    { <<>>,
      << [Objective("gate", "flag_set", "victory") EXCEPT !.flag = "gate_open"] >>,
      << [Objective("hold", "unit_dead", "defeat") EXCEPT !.unit_id = "b"] >> }

\* scripts that open the gate, for the unit that holds the turn when they run
GateScripts ==
    { <<>>,
      <<[BaseCommand("set_flag", "e") EXCEPT !.flag = "gate_open"],
        BaseCommand("end_turn", "e")>>,
      <<[BaseCommand("set_flag", "b") EXCEPT !.flag = "gate_open"],
        BaseCommand("end_turn", "b")>> }

Scenarios ==
    [units : {ScenarioUnits, FlankUnits}, commands : Scripts, policy : Policies,
     mission_events : MissionSets, objectives : {<<>>}, hazard_routines : {<<>>},
     max_steps : {MaxRunSteps}, dice : DiceStreams]
    \cup
    [units : {ScenarioUnits}, commands : GateScripts,
     policy : {NoPolicy, [NoPolicy EXCEPT !.enabled = TRUE]},
     mission_events :
        {<<>>, << MissionEvent("hail", "turn_start",
                      <<[BaseCommand("set_flag", NULL) EXCEPT !.flag = "alarm"]>>) >>},
     objectives : ObjectiveSets, hazard_routines : RoutineSets,
     max_steps : {MaxRunSteps}, dice : DiceStreams]

(***************************************************************************)
(* Specification DriverSpec: run_scenario_file on each scenario, and then  *)
(* once more on the same scenario in the same process.                     *)
(***************************************************************************)
NotStarted(scenario) ==
    [pc |-> "start", run |-> 1, scenario |-> scenario,
     state |-> BattleStateFromScenario(scenario.units), rng |-> 0, events |-> <<>>,
     scripted_executed |-> 0, auto_executed |-> 0, step_counter |-> 0,
     objective_statuses |-> EmptyDict,
     mission_turn_executed |-> {}, mission_once_completed |-> {},
     routine_turn_executed |-> {}, routine_once_completed |-> {},
     routine_use_counts |-> EmptyDict, ended |-> FALSE,
     command_index |-> 0, stop_reason |-> "", raised |-> 0, absorbed |-> 0,
     after_raise |-> 0, after_final |-> 0, after_end |-> 0, trail |-> <<>>,
     first |-> [events |-> <<>>, state |-> <<>>, stop_reason |-> ""]]

DriverInit ==
    /\ IdleReducer
    /\ IdleKernel
    /\ drv \in {NotStarted(scenario) : scenario \in Scenarios}

\* while step_counter < max_steps and not ended
LoopOpen(d) == d.pc = "loop" /\ d.step_counter < d.scenario.max_steps /\ ~d.ended

ScriptLeft(d) == d.command_index < Len(d.scenario.commands)

\* a pass of the loop that falls through to the next source
ContinuesNever(ran) == FALSE

\* if ran_mission_event: continue, and if ran_routine: continue
Continues(ran) == ran

\* the top of a pass of the loop, and the mission events of the pass
MissionPass(d) == MissionLoop([d EXCEPT !.trail = <<>>], 1, FALSE)

\* the routines of the pass, for the unit that is active in it
RoutinePass(d) ==
    RoutineLoop(d, ActiveUnitId(d.state),
                NormalizeHazardRoutines(d.scenario.hazard_routines, ActiveUnitId(d.state)),
                FALSE)

\* where a pass of the loop goes after the commands of one source: out of
\* the loop, back to its top, or on to the next source
AfterSource(pass, next_pc) ==
    IF pass.d.ended THEN Conclude(pass.d)
    ELSE IF Continues(pass.ran) THEN [pass.d EXCEPT !.pc = "loop"]
    ELSE [pass.d EXCEPT !.pc = next_pc]

Begin ==
    /\ drv.pc = "start"
    /\ drv' = BeginRun(drv)
    /\ UNCHANGED <<st, last, events, steps, warm, kin, kout>>

RunMissionEvents ==
    /\ LoopOpen(drv)
    /\ drv' = AfterSource(MissionPass(drv), "routines")
    /\ UNCHANGED <<st, last, events, steps, warm, kin, kout>>

RunHazardRoutines ==
    /\ drv.pc = "routines"
    /\ drv' = AfterSource(RoutinePass(drv), "dispatch")
    /\ UNCHANGED <<st, last, events, steps, warm, kin, kout>>

RunScripted ==
    /\ drv.pc = "dispatch"
    /\ ScriptLeft(drv)
    /\ drv' = ScriptedStep([drv EXCEPT !.pc = "loop"])
    /\ UNCHANGED <<st, last, events, steps, warm, kin, kout>>

RunEnemyPolicy ==
    /\ drv.pc = "dispatch"
    /\ ~ScriptLeft(drv)
    /\ drv.scenario.policy.enabled
    /\ drv' = PolicyStep([drv EXCEPT !.pc = "loop"])
    /\ UNCHANGED <<st, last, events, steps, warm, kin, kout>>

\* the loop ends: its condition fails, or nothing is left to run
Finish ==
    /\ \/ drv.pc = "loop" /\ ~LoopOpen(drv)
       \/ drv.pc = "dispatch" /\ ~ScriptLeft(drv) /\ ~drv.scenario.policy.enabled
    /\ drv' = Conclude(drv)
    /\ UNCHANGED <<st, last, events, steps, warm, kin, kout>>

\* the same scenario file is run again
Replay ==
    /\ drv.pc = "done"
    /\ drv.run = 1
    /\ drv' = [drv EXCEPT !.pc = "start", !.run = 2,
                          !.first = [events |-> drv.events, state |-> drv.state,
                                     stop_reason |-> drv.stop_reason]]
    /\ UNCHANGED <<st, last, events, steps, warm, kin, kout>>

DriverNext ==
    \/ Begin
    \/ RunMissionEvents
    \/ RunHazardRoutines
    \/ RunScripted
    \/ RunEnemyPolicy
    \/ Finish
    \/ Replay

DriverSpec == DriverInit /\ [][DriverNext]_vars

(***************************************************************************)
(* Properties of the driver, under DriverSpec                              *)
(***************************************************************************)
CommandErrorCount(d) ==
    Cardinality({k \in 1..Len(d.events) : d.events[k].type = "command_error"})

C5_EveryFailureStopsRun ==
    (drv.pc # "start" /\ drv.raised > 0)
        => /\ CommandErrorCount(drv) = drv.raised
           /\ drv.after_raise = 0
           /\ drv.pc = "done"
           /\ drv.stop_reason = "command_error"

\* C5 as amended: the same of every failure but those of the enemy policy's
\* own command when it is not end_turn; for each of those the driver
\* dispatches an end_turn instead and appends no command_error event
C5_UnabsorbedFailureStopsRun ==
    drv.pc # "start"
        => /\ CommandErrorCount(drv) = drv.raised - drv.absorbed
           /\ drv.raised > drv.absorbed
                => /\ drv.after_final = 0
                   /\ drv.pc = "done"
                   /\ drv.stop_reason = "command_error"
                   /\ drv.events[Len(drv.events)].type = "command_error"
           /\ drv.raised = drv.absorbed => drv.stop_reason # "command_error"

\* a run that a failed scripted command has stopped
C5_RunStoppedByCommandError ==
    /\ drv.pc = "done"
    /\ drv.raised = 1
    /\ drv.absorbed = 0
    /\ drv.scripted_executed > 0
    /\ drv.stop_reason = "command_error"

\* C7: the k-th event of the log (counting from 0) has the id ev_ followed
\* by k on 6 digits, and the state's event_sequence has advanced once per
\* event emitted after the opening one
C7_EventIdsContiguous ==
    drv.pc # "start"
        => /\ \A k \in 1..Len(drv.events) : drv.events[k].event_id = EventId(k - 1)
           /\ drv.state.event_sequence + 1 = Len(drv.events)

\* C12: in every pass of the driver's loop a hazard routine is dispatched
\* only if no mission event's command was, a scripted command only if neither
\* a mission event's nor a routine's was, and an enemy-policy command only if
\* none of those was and the scripted command list is exhausted
C12_SourcePriority ==
    LET sources == SeqToSet(drv.trail) IN
    /\ "routine" \in sources => "mission" \notin sources
    /\ "scripted" \in sources => sources \cap {"mission", "routine"} = {}
    /\ "policy" \in sources
          => /\ sources \cap {"mission", "routine", "scripted"} = {}
             /\ ~ScriptLeft(drv)

\* a run in which all four sources had their pass: a mission event, then a
\* routine, then the script, and at last the enemy policy
C12_AllSourcesDispatched ==
    /\ drv.pc = "done"
    /\ drv.scripted_executed > 0
    /\ "policy" \in SeqToSet(drv.trail)
    /\ \E i, j, k \in 1..Len(drv.events) :
          /\ i < j /\ j < k
          /\ drv.events[i].type = "mission_event"
          /\ drv.events[j].type = "run_hazard_routine"
          /\ drv.events[k].type = "enemy_policy_decision"

\* C14: a battle_end event occurs at most once in the log of a run and is
\* its last event; no command of any source is dispatched after it, and the
\* run's stop_reason is battle_end
C14_BattleEndTerminal ==
    LET ends == {k \in 1..Len(drv.events) : drv.events[k].type = "battle_end"} IN
    (drv.pc # "start" /\ ends # {})
        => /\ Cardinality(ends) = 1
           /\ Len(drv.events) \in ends
           /\ drv.after_end = 0
           /\ drv.ended
           /\ drv.stop_reason = "battle_end"

\* the gate was opened by the script: objective_update, then battle_end by
\* the objectives with a victory, and the script's next command never ran
C14_VictoryEndsRunMidScript ==
    /\ drv.pc = "done"
    /\ ScriptLeft(drv)
    /\ Len(drv.events) >= 2
    /\ drv.events[Len(drv.events) - 1].type = "objective_update"
    /\ drv.events[Len(drv.events)].type = "battle_end"
    /\ drv.events[Len(drv.events)].payload.reason = "objectives"
    /\ drv.events[Len(drv.events)].payload.outcome = "victory"
    /\ drv.stop_reason = "battle_end"

\* the events a step of the driver appends to the log of the run
NewDriverEvents ==
    IF drv.pc = "start" \/ Len(drv'.events) < Len(drv.events) THEN <<>>
    ELSE SubSeq(drv'.events, Len(drv.events) + 1, Len(drv'.events))

PolicyDecisions(evs) == SelectSeq(evs, LAMBDA e : e.type = "enemy_policy_decision")

\* C26: the enemy policy decides a command only when the script is exhausted,
\* the policy is enabled and the active unit's team is one of the configured
\* teams; a unit of any other team gets no command from it, not even end_turn
C26_PolicyOnlyForConfiguredTeams ==
    [][\A k \in 1..Len(PolicyDecisions(NewDriverEvents)) :
          /\ ~ScriptLeft(drv)
          /\ drv.scenario.policy.enabled
          /\ drv.state.units[PolicyDecisions(NewDriverEvents)[k].payload.command.actor].team
                \in drv.scenario.policy.teams]_vars

\* C26, amended: the enemy policy decides a command only when the script is
\* exhausted and the policy is enabled, always for the active unit; a unit
\* whose team is not one of the configured teams gets end_turn and nothing else
C26_OtherTeamsOnlyEndTurn ==
    [][\A k \in 1..Len(PolicyDecisions(NewDriverEvents)) :
          /\ ~ScriptLeft(drv)
          /\ drv.scenario.policy.enabled
          /\ PolicyDecisions(NewDriverEvents)[k].payload.command.actor
                = ActiveUnitId(drv.state)
          /\ drv.state.units[ActiveUnitId(drv.state)].team \notin drv.scenario.policy.teams
                => PolicyDecisions(NewDriverEvents)[k].payload.command.type = "end_turn"]_vars

\* a run in which the policy ended the turn of e, of team pc, and then had
\* a unit of team enemy strike
C26_PolicyEndedTurnOfOtherTeam ==
    \E i, j \in 1..Len(drv.events) :
        /\ i < j
        /\ "pc" \notin drv.scenario.policy.teams
        /\ drv.events[i].type = "enemy_policy_decision"
        /\ drv.events[i].payload.command.type = "end_turn"
        /\ drv.events[i].payload.command.actor = "e"
        /\ drv.state.units["e"].team = "pc"
        /\ drv.events[j].type = "enemy_policy_decision"
        /\ drv.events[j].payload.command.type = "strike"
        /\ drv.state.units[drv.events[j].payload.command.actor].team = "enemy"

(***************************************************************************)
(* Specification MissionSpec: run_scenario_file on scenarios whose mission *)
(* events repeat and whose spawned unit enters the turn order ahead of the *)
(* active unit.                                                            *)
(***************************************************************************)
\* a turn_start event that raises the alarm flag
Hail(once) ==
    [MissionEvent("hail", "turn_start",
                  <<[BaseCommand("set_flag", NULL) EXCEPT !.flag = "alarm"]>>)
        EXCEPT !.once = once]

\* d acts before every unit of ScenarioUnits, or after all of them
Vanguard == RawUnit("d", "enemy", 1, <<2, 1>>, 9)
Rearguard == RawUnit("d", "enemy", 1, <<2, 1>>, 0)

TurnMissionSets ==
    { << Hail(FALSE) >>,
      << Hail(TRUE) >>,
      << Hail(FALSE), Wave(Vanguard, "wave_done") >>,
      << Wave(Vanguard, "wave_done"), Hail(FALSE) >>,
      << Hail(TRUE), Wave(Vanguard, "wave_done") >>,
      << Hail(FALSE), Wave(Rearguard, "wave_done") >> }

TurnScripts ==
    { <<>>,
      <<BaseCommand("end_turn", "e"), BaseCommand("end_turn", "b")>>,
      <<[BaseCommand("spawn_unit", "e") EXCEPT !.unit = Vanguard,
                                               !.placement_policy = "exact"],
        BaseCommand("end_turn", "e")>> }

MissionScenarios ==
    [units : {ScenarioUnits}, commands : TurnScripts,
     policy : {NoPolicy, [NoPolicy EXCEPT !.enabled = TRUE]},
     mission_events : TurnMissionSets, objectives : {<<>>}, hazard_routines : {<<>>},
     max_steps : {MaxRunSteps}, dice : DiceStreams]

MissionInit ==
    /\ IdleReducer
    /\ IdleKernel
    /\ drv \in {NotStarted(scenario) : scenario \in MissionScenarios}

MissionSpec == MissionInit /\ [][DriverNext]_vars

\* the mission_event entries of the log, in order
MissionFirings(evs) == SelectSeq(evs, LAMBDA e : e.type = "mission_event")

\* whether the scenario declares the mission event of that id with once
OnceEvent(d, id) ==
    \E k \in 1..Len(d.scenario.mission_events) :
        d.scenario.mission_events[k].id = id /\ d.scenario.mission_events[k].once

\* C27: a mission event fires at most once during one turn (one stay of one
\* active unit in one round), whatever commands run during that turn, and a
\* mission event with once = true fires at most once in the whole run
C27_MissionEventOncePerTurn ==
    \A i, j \in 1..Len(MissionFirings(drv.events)) :
        (i < j /\ MissionFirings(drv.events)[i].payload.id
                     = MissionFirings(drv.events)[j].payload.id)
        => /\ ~OnceEvent(drv, MissionFirings(drv.events)[i].payload.id)
           /\ \/ MissionFirings(drv.events)[i].round # MissionFirings(drv.events)[j].round
              \/ MissionFirings(drv.events)[i].active_unit
                    # MissionFirings(drv.events)[j].active_unit

(***************************************************************************)
(* Specification RoutineSpec: run_scenario_file on scenarios of e and c    *)
(* over several rounds, with hazard routines of e that have a cadence, a   *)
(* round window, a trigger limit, flags, or a second routine beside them.  *)
(***************************************************************************)
DuoUnits == << ScenarioUnits[1], ScenarioUnits[3] >>

Burn == HazardRoutine("burn", "e", "mitigation-demo", "Burn")

Burst ==
    [HazardRoutine("burst", "e", "burst-demo", "Burst") EXCEPT
        !.target_policy = "nearest_enemy_area_center"]

WindowRoutineSets ==
    { << [Burn EXCEPT !.cadence_rounds = 2] >>,
      << [Burn EXCEPT !.start_round = 2, !.end_round = 2] >>,
      << [Burn EXCEPT !.max_triggers = 1] >>,
      << [Burn EXCEPT !.once = TRUE] >>,
      << [Burn EXCEPT !.enabled_flag = "alarm"] >>,
      << [Burn EXCEPT !.disabled_flag = "alarm"] >>,
      << [Burn EXCEPT !.auto_end_turn = FALSE] >>,
      << Burn, Burst >>,
      << [Burn EXCEPT !.priority = 1], [Burst EXCEPT !.auto_end_turn = FALSE] >> }

\* the alarm flag is raised when round 2 begins
AlarmAtTwo ==
    [MissionEvent("alarm_on", "round_start",
                  <<[BaseCommand("set_flag", NULL) EXCEPT !.flag = "alarm"]>>)
        EXCEPT !.round = 2]

\* a policy whose teams name no unit of the battle: it ends every turn
Warden == [NoPolicy EXCEPT !.enabled = TRUE, !.teams = {"warden"}]

RoutineScenarios ==
    [units : {DuoUnits},
     commands : {<<>>, <<[BaseCommand("spawn_unit", "e") EXCEPT
                            !.unit = Vanguard, !.placement_policy = "exact"]>>},
     policy : {NoPolicy, Warden},
     mission_events : {<<>>, << AlarmAtTwo >>}, objectives : {<<>>},
     hazard_routines : WindowRoutineSets,
     max_steps : {MaxRoutineSteps}, dice : DiceStreams]

RoutineInit ==
    /\ IdleReducer
    /\ IdleKernel
    /\ drv \in {NotStarted(scenario) : scenario \in RoutineScenarios}

RoutineSpec == RoutineInit /\ [][DriverNext]_vars

\* the routines of the active unit that the pass beginning in d may run
EligibleRoutines(d) ==
    SelectSeq(NormalizeHazardRoutines(d.scenario.hazard_routines, ActiveUnitId(d.state)),
              LAMBDA r :
                 /\ <<d.state.round_number, d.state.turn_index, r.id>>
                       \notin d.routine_turn_executed
                 /\ RoutineEligible(d.state, r, d.routine_once_completed,
                                    d.routine_use_counts))

\* how many calls of the pass dispatched a routine
RoutineCalls(trail) == Cardinality({k \in 1..Len(trail) : trail[k] = "routine"})

\* the command of the first call the step made, as its event or its error tells
FirstDispatched(evs) ==
    IF evs = <<>> THEN [hazard_id |-> "", source_name |-> ""]
    ELSE IF Head(evs).type = "command_error"
    THEN [hazard_id |-> Head(evs).payload.command.hazard_id,
          source_name |-> Head(evs).payload.command.source_name]
    ELSE [hazard_id |-> Head(evs).payload.hazard_id,
          source_name |-> Head(evs).payload.source_name]

\* C28: one pass of the driver runs exactly one eligible hazard routine of
\* the active unit, the first by (priority, id); after it the driver ends the
\* unit's turn if auto_end_turn is set and the unit is still active and
\* alive, and no second routine is dispatched in that pass
C28_OneRoutinePerIteration ==
    [][drv.pc = "routines"
       => /\ RoutineCalls(drv'.trail) = IF EligibleRoutines(drv) = <<>> THEN 0 ELSE 1
          /\ EligibleRoutines(drv) # <<>>
                => /\ FirstDispatched(NewDriverEvents).hazard_id
                         = Head(EligibleRoutines(drv)).hazard_id
                   /\ FirstDispatched(NewDriverEvents).source_name
                         = Head(EligibleRoutines(drv)).source_name
                   /\ "end_turn" \in SeqToSet(drv'.trail)
                         => Head(EligibleRoutines(drv)).auto_end_turn
                   /\ ( /\ Head(EligibleRoutines(drv)).auto_end_turn
                        /\ drv'.pc = "loop"
                        /\ Alive(drv'.state.units[ActiveUnitId(drv.state)]) )
                         => "end_turn" \in SeqToSet(drv'.trail)]_vars

\* the run_hazard_routine entries of a log, in order
RoutineRuns(evs) == SelectSeq(evs, LAMBDA e : e.type = "run_hazard_routine")

\* the routine of the scenario that a run_hazard_routine event comes from
RoutineOf(d, ev) ==
    CHOOSE r \in {d.scenario.hazard_routines[k] : k \in 1..Len(d.scenario.hazard_routines)} :
        r.hazard_id = ev.payload.hazard_id /\ r.source_name = ev.payload.source_name

FlagHeld(s, f) == IF f \in DOMAIN s.flags THEN s.flags[f] ELSE FALSE

\* how many entries of the log come from the same routine as its i-th
RunsOfSame(runs, i) ==
    Cardinality({j \in 1..Len(runs) :
                    /\ runs[j].payload.hazard_id = runs[i].payload.hazard_id
                    /\ runs[j].payload.source_name = runs[i].payload.source_name})

\* a routine dispatched in round r: r is inside the round window, on the
\* cadence, and the flags of the state allow it
RoutineInSeason(s, routine, r) ==
    /\ r >= routine.start_round
    /\ routine.end_round = NoInt \/ r <= routine.end_round
    /\ (r - routine.start_round) % routine.cadence_rounds = 0
    /\ routine.enabled_flag = NULL \/ FlagHeld(s, routine.enabled_flag)
    /\ routine.disabled_flag = NULL \/ ~FlagHeld(s, routine.disabled_flag)

\* over the log: at most max_triggers dispatches, at most one if once is set
RoutineWithinLimits(d, runs) ==
    \A i \in 1..Len(runs) :
        /\ RoutineOf(d, runs[i]).max_triggers # NoInt
              => RunsOfSame(runs, i) <= RoutineOf(d, runs[i]).max_triggers
        /\ RoutineOf(d, runs[i]).once => RunsOfSame(runs, i) = 1

\* over the log: no routine is dispatched twice in one turn of its unit
RoutineOncePerTurn(runs) ==
    \A i, j \in 1..Len(runs) :
        ( /\ i < j
          /\ runs[i].payload.hazard_id = runs[j].payload.hazard_id
          /\ runs[i].payload.source_name = runs[j].payload.source_name )
        => runs[i].round # runs[j].round \/ runs[i].active_unit # runs[j].active_unit

\* C29: a hazard routine is dispatched only in rounds r inside its round
\* window with (r - start_round) mod cadence_rounds = 0 and only while its
\* flags allow; over a run it is dispatched at most max_triggers times, at
\* most once if once is set, and at most once per turn of its unit
C29_RoutineWindowCadenceLimits ==
    [][drv.pc = "routines"
       => /\ \A k \in 1..Len(RoutineRuns(NewDriverEvents)) :
                RoutineInSeason(drv.state,
                                RoutineOf(drv, RoutineRuns(NewDriverEvents)[k]),
                                RoutineRuns(NewDriverEvents)[k].round)
          /\ RoutineWithinLimits(drv', RoutineRuns(drv'.events))
          /\ RoutineOncePerTurn(RoutineRuns(drv'.events))]_vars

\* the window, cadence, flag and limit parts alone, which hold under RoutineSpec
RoutineSeasonAndLimits ==
    [][drv.pc = "routines"
       => /\ \A k \in 1..Len(RoutineRuns(NewDriverEvents)) :
                RoutineInSeason(drv.state,
                                RoutineOf(drv, RoutineRuns(NewDriverEvents)[k]),
                                RoutineRuns(NewDriverEvents)[k].round)
          /\ RoutineWithinLimits(drv', RoutineRuns(drv'.events))]_vars

LifecycleTypes == {"effect_apply", "effect_tick", "effect_duration", "effect_expire"}

\* the events of a call at which a tick of persistent damage left its target at hp 0
FatalTicks(evs) ==
    {k \in 1..Len(evs) : /\ evs[k].type = "effect_tick"
                         /\ evs[k].payload.kind = "persistent_damage"
                         /\ evs[k].payload.target_hp = 0}

\* the lifecycle events of the given types that a call emitted for a target
\* after a tick of the same call had left that target at hp 0
AfterDeath(evs, types) ==
    {k \in 1..Len(evs) :
        /\ evs[k].type \in types
        /\ \E i \in FatalTicks(evs) :
              i < k /\ evs[i].payload.target = evs[k].payload.target}

\* an apply_effect command whose target is absent or has hp 0 when it is reduced
AppliedToNobody(s, cmd) ==
    /\ cmd.type = "apply_effect"
    /\ cmd.target \notin DOMAIN s.units \/ s.units[cmd.target].hp = 0

\* such a command emits no event at all and leaves the state as it was
NothingApplied(s, cmd, ok, evs, after) ==
    AppliedToNobody(s, cmd) => (~ok /\ evs = <<>> /\ after = s)

\* C30: lifecycle processing for a missing or dead target is a no-op: when
\* an effect's target is absent or has hp 0 at the time the effect is
\* applied, ticked, duration-decremented or expired, no effect_apply,
\* effect_tick, effect_duration or effect_expire event is emitted and no
\* unit changes
C30_DeadTargetNoLifecycleEvents ==
    [][steps' = steps + 1
       => /\ NothingApplied(st, last'.cmd, last'.ok, events', st')
          /\ AfterDeath(events', LifecycleTypes) = {}]_vars

\* C30, amended: an effect is neither applied to nor ticked on a target that
\* is absent or has hp 0 (no effect_apply, no effect_tick, no unit changes);
\* its duration is still counted and it still expires
C30_DeadTargetNeitherAppliedNorTicked ==
    [][steps' = steps + 1
       => /\ NothingApplied(st, last'.cmd, last'.ok, events', st')
          /\ AfterDeath(events', {"effect_apply", "effect_tick"}) = {}]_vars

\* the end of a turn of b with two persistent damages on it: the first tick
\* took b to hp 0 and the second effect did not tick
C30_SecondTickSkippedOnDeadTarget ==
    /\ kin.plan = "down"
    /\ last.cmd.type = "end_turn" /\ last.ok
    /\ st.units["b"].hp = 0
    /\ Cardinality({k \in 1..Len(st.effects) :
                       /\ st.effects[k].kind = "persistent_damage"
                       /\ st.effects[k].target_unit_id = "b"}) = 2
    /\ Cardinality(FatalTicks(events)) = 1
    /\ Cardinality({k \in 1..Len(events) : events[k].type = "effect_tick"}) = 1

\* whether a list of unit ids is in ascending order of the ids
AscendingIds(ids) == \A i, j \in 1..Len(ids) : i < j => IdRank[ids[i]] < IdRank[ids[j]]

\* the target list that an event of an area command carries, in processing order
ProcessedTargets(event) ==
    IF event.type = "area_save_damage" THEN event.payload.targets
    ELSE IF event.type \in {"trigger_hazard_source", "run_hazard_routine"}
    THEN event.payload.target_ids
    ELSE <<>>

\* C31: wherever the reducer enumerates alive units to form a target set
\* (area_save_damage, modeled hazard effects), the targets are processed in
\* ascending unit_id order, whatever the order the units were loaded or spawned in
C31_TargetsInAscendingIdOrder ==
    \A k \in 1..Len(events) : AscendingIds(ProcessedTargets(events[k]))

(***************************************************************************)
(* Specification RoundSpec: the caller of LifeSpec on the plan of three    *)
(* units whose turns go round while units go down and a unit is spawned.   *)
(***************************************************************************)
RoundPlans == {"rounds"}

RoundInit == PlanInit(RoundPlans)

RoundSpec == RoundInit /\ [][LifeNext]_vars

\* whether no unit behind the active one in the turn order is alive, so that
\* the search of _advance_turn runs past the end of the turn order
NoAliveUnitBehind(s) ==
    \A i \in (s.turn_index + 2)..Len(s.turn_order) : ~Alive(s.units[s.turn_order[i]])

\* C32: a successful end_turn raises round_number by exactly 1 when the advance
\* to the next active unit, dead units skipped, wraps past the end of the turn
\* order, and leaves it unchanged otherwise; no other command and no failed
\* command changes round_number
C32_RoundAdvancesExactlyOnWrap ==
    [][st'.round_number = st.round_number
          + (IF last'.cmd.type = "end_turn" /\ last'.ok /\ NoAliveUnitBehind(st)
             THEN 1 ELSE 0)]_vars

\* the place of a unit in the turn order
TurnPlace(s, unit_id) == CHOOSE i \in 1..Len(s.turn_order) : s.turn_order[i] = unit_id

\* an end_turn has passed over a dead unit behind the unit that ended its turn
\* and has wrapped into round 2
C32_WrappedOverDeadUnit ==
    /\ last.cmd.type = "end_turn" /\ last.ok
    /\ st.round_number = 2
    /\ \E i \in 1..Len(st.turn_order) :
          /\ i > TurnPlace(st, last.cmd.actor)
          /\ ~Alive(st.units[st.turn_order[i]])

\* an end_turn of the last unit of the turn order has wrapped to a unit that
\* is alive, and an end_turn before it has not wrapped
C32_WrappedAtEndOfOrder ==
    /\ last.cmd.type = "end_turn" /\ last.ok
    /\ st.round_number = 2
    /\ st.turn_index = 0
    /\ ActiveUnitId(st) # last.cmd.actor
    /\ \A id \in DOMAIN st.units : Alive(st.units[id])

\* whether a turn order lists every unit of the state exactly once
ListsEveryUnitOnce(s) ==
    /\ Len(s.turn_order) = Cardinality(DOMAIN s.units)
    /\ {s.turn_order[i] : i \in 1..Len(s.turn_order)} = DOMAIN s.units

\* whether a turn order runs by descending initiative, equal initiatives by
\* ascending unit id
ByInitiativeThenId(s) ==
    \A i, j \in 1..Len(s.turn_order) :
       i < j =>
          LET first == s.units[s.turn_order[i]]
              second == s.units[s.turn_order[j]]
          IN \/ first.initiative > second.initiative
             \/ /\ first.initiative = second.initiative
                /\ IdRank[first.unit_id] < IdRank[second.unit_id]

\* C33: in every reachable state turn_order is a permutation of all unit ids,
\* dead and spawned units included, sorted by descending initiative with ties
\* broken by ascending unit_id, and 0 <= turn_index < |turn_order|, so that
\* the active unit is defined
C33_TurnOrderSortedPermutation ==
    /\ ListsEveryUnitOnce(st)
    /\ ByInitiativeThenId(st)
    /\ st.turn_index >= 0 /\ st.turn_index < Len(st.turn_order)
    /\ ActiveUnitId(st) \in DOMAIN st.units

\* a unit spawned with the initiative of a loaded unit stands before it in a
\* turn order of four, while another unit of the turn order is dead
C33_SpawnedIntoTieWithDeadUnit ==
    /\ last.type = "spawn_unit" /\ last.ok
    /\ Len(st.turn_order) = 4
    /\ \E i \in 1..3 :
          /\ st.turn_order[i] = last.spawned
          /\ st.units[st.turn_order[i + 1]].initiative = last.spawn_initiative
    /\ \E id \in DOMAIN st.units : ~Alive(st.units[id])

(***************************************************************************)
(* Specification RunSpec: the driver of DriverSpec as the sequential       *)
(* program it is: whenever it has a next statement, it executes it.        *)
(***************************************************************************)
\* the statements of run_scenario_file up to the end of its loop
RunStatements ==
    Begin \/ RunMissionEvents \/ RunHazardRoutines \/ RunScripted \/ RunEnemyPolicy

\* the states in which one of them is the next statement: each of them
\* changes drv, so these are the states where <<RunStatements>>_vars is enabled
InRunStatements ==
    \/ drv.pc = "start"
    \/ LoopOpen(drv)
    \/ drv.pc = "routines"
    \/ drv.pc = "dispatch" /\ (ScriptLeft(drv) \/ drv.scenario.policy.enabled)

\* weak fairness of RunStatements, with its enabling condition written as
\* the state predicate above
RunStatementsFair == <>[]InRunStatements => []<><<RunStatements>>_vars

RunSpec ==
    /\ DriverInit /\ [][DriverNext]_vars
    /\ RunStatementsFair
    /\ WF_vars(Finish)
    /\ WF_vars(Replay)

\* a step inside a pass of the loop: the pass stops the loop, or it is back at
\* the top of the loop with at least one more command executed, or it has
\* moved on to the next source of commands with nothing executed
PassStopsOrExecutes ==
    drv.pc \in {"loop", "routines", "dispatch"} =>
       \/ drv'.pc = "done"
       \/ /\ drv'.pc = "loop"
          /\ drv'.step_counter > drv.step_counter
          /\ drv'.trail # <<>>
       \/ /\ <<drv.pc, drv'.pc>> \in {<<"loop", "routines">>, <<"routines", "dispatch">>}
          /\ drv'.step_counter = drv.step_counter

\* the body of the loop is entered only below max_steps
BodyBelowMaxSteps ==
    drv.pc \in {"routines", "dispatch"} => drv.step_counter < drv.scenario.max_steps

\* a run left the loop at max_steps with no battle end and no command error
StoppedAtMaxSteps ==
    /\ drv.pc = "done"
    /\ ~drv.ended
    /\ CommandErrorCount(drv) = 0
    /\ drv.step_counter >= drv.scenario.max_steps

\* C34: every run of the driver terminates: each pass of the loop stops the
\* loop or executes at least one command and increases step_counter, the loop
\* is left once step_counter >= max_steps, and a run that leaves it for that
\* reason without battle end or command error reports stop_reason max_steps
C34_EveryRunTerminates ==
    /\ [][PassStopsOrExecutes]_vars
    /\ [](BodyBelowMaxSteps /\ (StoppedAtMaxSteps => drv.stop_reason = "max_steps"))
    /\ <>(drv.pc = "done" /\ drv.run = 1)
    /\ <>[](drv.pc = "done" /\ drv.run = 2)

\* the second run has stopped at max_steps, its last pass having run a command
\* of the enemy policy
C34_RunStoppedAtMaxSteps ==
    /\ StoppedAtMaxSteps
    /\ drv.run = 2
    /\ drv.stop_reason = "max_steps"
    /\ Len(drv.trail) > 0
    /\ drv.trail[Len(drv.trail)] = "policy"

\* whether the events from place lo to place hi are lifecycle events of one unit
LifecycleEventsOf(evs, lo, hi, unit_id) ==
    \A k \in lo..hi : evs[k].type \in LifecycleTypes /\ evs[k].payload.target = unit_id

\* the places of the turn_start events in a list of events
TurnStarts(evs) == {k \in 1..Len(evs) : evs[k].type = "turn_start"}

\* whether the events of an end_turn of a unit are in the order of the turn
\* change that led to state s
InTurnChangeOrder(evs, ending_unit, s) ==
    /\ Len(evs) >= 2
    /\ evs[1].type = "end_turn" /\ evs[1].payload.actor = ending_unit
    /\ Cardinality(TurnStarts(evs)) = 1
    /\ \A k \in TurnStarts(evs) :
          /\ LifecycleEventsOf(evs, 2, k - 1, ending_unit)
          /\ evs[k].payload.active_unit = ActiveUnitId(s)
          /\ evs[k].payload.round = s.round_number
          /\ LifecycleEventsOf(evs, k + 1, Len(evs), ActiveUnitId(s))

\* C35: the events returned by one end_turn are, in this order, the end_turn
\* event, the turn-end lifecycle events of the unit ending its turn, exactly
\* one turn_start event naming the new active unit and round, and the
\* turn-start lifecycle events of the new active unit
C35_EndTurnEventOrder ==
    (last.cmd.type = "end_turn" /\ last.ok) => InTurnChangeOrder(events, last.cmd.actor, st)

\* an end_turn with lifecycle events on both sides of its turn_start event,
\* of two different units
C35_LifecycleOnBothSides ==
    /\ last.cmd.type = "end_turn" /\ last.ok
    /\ ActiveUnitId(st) # last.cmd.actor
    /\ \E k \in TurnStarts(events) : k > 2 /\ k < Len(events)

(***************************************************************************)
(* Specification HazardSpec: the caller of LifeSpec triggering hazard      *)
(* sources on the battle of three units.                                   *)
(***************************************************************************)
HazardInit == PlanInit({"hazard"})

HazardSpec == HazardInit /\ [][LifeNext]_vars

\* the apply_condition entries of a source, as names with the value applied
ListedConditions(effects) ==
    {[name |-> effects[i].condition,
      value |-> IF effects[i].value = 0 THEN 1 ELSE effects[i].value]
        : i \in {j \in 1..Len(effects) : /\ effects[j].kind = "apply_condition"
                                         /\ effects[j].condition # ""}}

ListsDeath(effects) ==
    \E i \in 1..Len(effects) : effects[i].kind \in {"instant_death", "special_lethality"}

ListsAffliction(effects) == \E i \in 1..Len(effects) : effects[i].kind = "affliction"

ListsDamage(effects) == \E i \in 1..Len(effects) : effects[i].kind = "damage"

\* a result of a target that made its save: nothing listed is applied to it
SparedBySave(effects, result, before, after) ==
    /\ result.applied_conditions = <<>>
    /\ result.special_flags = <<>>
    /\ \A listed \in ListedConditions(effects) :
          ConditionValue(after.conditions, listed.name)
             = ConditionValue(before.conditions, listed.name)
    /\ ListsDeath(effects) /\ ~ListsDamage(effects) => after.hp = before.hp

\* a result of a target that failed its save or had none to make: every
\* listed condition is applied to it, but for those it is immune to
GivenEveryCondition(effects, result, before, after) ==
    \A listed \in ListedConditions(effects) :
       IF ConditionIsImmune(listed.name, before.condition_immunities)
       THEN /\ listed \notin SeqToSet(result.applied_conditions)
            /\ listed \in SeqToSet(result.skipped_conditions)
            /\ ConditionValue(after.conditions, listed.name)
                  = ConditionValue(before.conditions, listed.name)
       ELSE /\ listed \in SeqToSet(result.applied_conditions)
            /\ ConditionValue(after.conditions, listed.name) >= listed.value

\* the results of the hazard command of a step, each with its source's effects
ResolvedAsListed(effects, results, s, t) ==
    \A i \in 1..Len(results) :
       LET result == results[i]
           before == s.units[result.target]
           after == t.units[result.target]
       IN IF result.save.degree \in {"success", "critical_success"}
          THEN SparedBySave(effects, result, before, after)
          ELSE GivenEveryCondition(effects, result, before, after)

TriggeredOnImmuneTarget ==
    /\ last.ok /\ last.cmd.type = "trigger_hazard_source"
    /\ last.cmd.source_name = "Lingering Mist"
    /\ \E i \in 1..Len(events[1].payload.results) :
          /\ Len(events[1].payload.results[i].applied_conditions) = 1
          /\ Len(events[1].payload.results[i].skipped_conditions) = 1

\* the teams that have a unit alive
TeamsStanding(s) == {s.units[u].team : u \in {v \in DOMAIN s.units : Alive(s.units[v])}}

\* C37: the turn order never gets stuck on a dead unit: after every
\* successful command, while at least two teams have alive units, the active
\* unit is alive, also when the unit that became active was killed by the
\* persistent damage of its own turn start or by an area that took in the actor
C37_ActiveUnitAliveWhileContested ==
    (last.ok /\ last.type # "" /\ Cardinality(TeamsStanding(st)) >= 2)
       => Alive(st.units[ActiveUnitId(st)])

\* the ids of the effects in the effects map
EffectIds(s) == {s.effects[i].effect_id : i \in 1..Len(s.effects)}

\* the ids given to the effects that the command behind a list of events
\* created: by apply_effect, or for the afflictions contracted from a source
CreatedEffectIds(cmd, evs) ==
    IF cmd.type = "apply_effect"
    THEN {evs[k].payload.effect_id :
             k \in {j \in 1..Len(evs) : evs[j].type = "apply_effect_command"}}
    ELSE IF /\ cmd.type \in {"trigger_hazard_source", "run_hazard_routine"}
            /\ ListsAffliction(LookupHazardSource(cmd.hazard_id, cmd.source_name,
                                                  SourceType(cmd)).effects)
    THEN UNION {{evs[k].payload.results[i].affliction.effect_id :
                    i \in {j \in 1..Len(evs[k].payload.results) :
                              evs[k].payload.results[j].affliction.contracted}}
                   : k \in {j \in 1..Len(evs) : evs[j].type = cmd.type}}
    ELSE {}

\* C38: effect ids are unique over time: an effect created by apply_effect or
\* by the resolution of a modeled affliction gets an id that no effect in the
\* effects map has, so that creating it replaces no effect, also after earlier
\* effects have expired and left the map
C38_NewEffectIdIsFresh ==
    [][last'.ok => /\ CreatedEffectIds(last'.cmd, events') \cap EffectIds(st) = {}
                   /\ EffectIds(st) \subseteq EffectIds(st')
                        \cup (IF last'.cmd.type = "end_turn" THEN EffectIds(st) ELSE {})]_vars

\* the units alive in a state
Standing(s) == {u \in DOMAIN s.units : Alive(s.units[u])}

\* no two alive units share a tile, and every alive unit is on a tile of the
\* map that is not blocked
TilesHeldSingly(s) ==
    /\ \A u \in Standing(s) :
          /\ InBounds(s, s.units[u].x, s.units[u].y)
          /\ ~IsBlocked(s, s.units[u].x, s.units[u].y)
    /\ \A u, v \in Standing(s) :
          u # v => <<s.units[u].x, s.units[u].y>> # <<s.units[v].x, s.units[v].y>>

\* the move reported by a move event: one step, onto the tile the actor is on
\* in state s
SingleStep(event, s) ==
    /\ ManhattanDistance(event.payload.from[1], event.payload.from[2],
                         event.payload.to[1], event.payload.to[2]) = 1
    /\ event.payload.to = <<s.units[event.payload.actor].x, s.units[event.payload.actor].y>>

\* C39: from a battle in which no two alive units share a tile and no alive
\* unit stands on a blocked or out-of-bounds tile, the same holds after any
\* sequence of commands with successful move and spawn_unit commands (exact or
\* nearest_open) among them, and a move succeeds only onto an in-bounds,
\* unblocked, unoccupied tile at Manhattan distance exactly 1
C39_TilesHeldSingly ==
    /\ TilesHeldSingly(st)
    /\ (last.type = "move" /\ last.ok) => SingleStep(events[1], st)

\* a unit was spawned by nearest_open onto a tile that no spawn_unit asks
\* for, after the active unit had moved, and four units are alive
C39_SpawnedBesideHeldTile ==
    /\ last.type = "spawn_unit" /\ last.ok
    /\ events[1].payload.placement_policy = "nearest_open"
    /\ events[1].payload.position \notin {raw.position : raw \in SpawnRaws}
    /\ <<st.units["e"].x, st.units["e"].y>> # <<0, 0>>
    /\ Cardinality(Standing(st)) = 4

(***************************************************************************)
(* Specification MusterSpec: the driver on scenarios with a repeatable     *)
(* round_start mission event, run over several rounds while the unit that  *)
(* acts first is struck at.                                                *)
(***************************************************************************)
\* e acts first and goes down at the first hit; its team keeps c
MusterUnits ==
    << RawUnit("e", "pc", 1, <<0, 0>>, 3),
       RawUnit("b", "enemy", 2, <<1, 0>>, 2),
       RawUnit("c", "pc", 2, <<2, 0>>, 1) >>

Muster(start_round) ==
    [MissionEvent("muster", "round_start",
                  <<[BaseCommand("set_flag", NULL) EXCEPT !.flag = "alarm"]>>)
        EXCEPT !.once = FALSE, !.start_round = start_round]

\* every unit ends its turn, with or without a strike of b at e on the way;
\* the last script goes on as the turn order does once e is down
MusterScripts ==
    LET pass(a) == BaseCommand("end_turn", a)
        hit == [BaseCommand("strike", "b") EXCEPT !.target = "e"]
    IN { <<pass("e"), pass("b"), pass("c"), pass("e"), pass("b"), pass("c")>>,
         <<pass("e"), hit, pass("b"), pass("c"), pass("e"), pass("b")>>,
         <<pass("e"), hit, pass("b"), pass("c"), pass("b"), pass("c")>> }

MusterScenarios ==
    [units : {MusterUnits}, commands : MusterScripts,
     policy : {NoPolicy, [NoPolicy EXCEPT !.enabled = TRUE]},
     mission_events : {<<Muster(1)>>, <<Muster(2)>>}, objectives : {<<>>},
     hazard_routines : {<<>>}, max_steps : {MaxRoutineSteps}, dice : DiceStreams]

MusterInit ==
    /\ IdleReducer
    /\ IdleKernel
    /\ drv \in {NotStarted(scenario) : scenario \in MusterScenarios}

MusterSpec == MusterInit /\ [][DriverNext]_vars

\* whether round r is in the round window of a mission event
InRoundWindow(mission_event, r) ==
    /\ mission_event.round = NoInt \/ mission_event.round = r
    /\ r >= mission_event.start_round
    /\ mission_event.end_round = NoInt \/ r <= mission_event.end_round

\* the rounds of the finished run d in which a mission event has fired
RoundsFired(d, id) ==
    {d.events[k].round : k \in {j \in 1..Len(d.events) :
                                   /\ d.events[j].type = "mission_event"
                                   /\ d.events[j].payload.id = id}}

\* the rounds that the battle of the finished run d has been through
RoundsPlayed(d) == 1..(d.state.round_number - 1)

\* C40: a repeatable (once = false) round_start mission event without flag
\* conditions fires in every round of its window that the battle reaches
\* (here: every round that the run has played through), also in the rounds
\* in which the unit at turn index 0 is dead and skipped by the turn advance
C40_RoundStartFiresEveryRound ==
    drv.pc = "done" =>
       \A k \in 1..Len(drv.scenario.mission_events) :
          LET mission_event == drv.scenario.mission_events[k]
          IN (/\ mission_event.trigger = "round_start"
              /\ ~mission_event.once
              /\ mission_event.enabled_flag = NULL
              /\ mission_event.disabled_flag = NULL)
             => \A r \in RoundsPlayed(drv) :
                   InRoundWindow(mission_event, r) => r \in RoundsFired(drv, mission_event.id)

====
